---- MODULE Spec2Model ----
(***************************************************************************)
(* The MCPServer reconciler: one Reconcile pass per delivered request,     *)
(* split at its requests to the cluster API.  The cluster (the record,     *)
(* its three children, external actors, the work queue) is the             *)
(* environment; the pass is the program.                                   *)
(***************************************************************************)
EXTENDS Naturals, Sequences, FiniteSets, TLC

VARIABLES
    apiMCPServer,    \* the MCPServer record as the API server holds it
    apiObjects,      \* kind -> the child object of the record's name
    pc,              \* position of the running Reconcile pass
    mcpServer,       \* the pass's in-memory copy of the record
    originalStatus,  \* the pass's snapshot of the fetched status
    overallReady,    \* the pass's aggregated condition
    result,          \* what Reconcile returns: (ctrl.Result, error)
    issued,          \* the requests this pass has issued, with outcomes
    queued,          \* a request for the record waits in the work queue
    timer,           \* a RequeueAfter delay is pending
    now,             \* the wall clock read by meta.SetStatusCondition
    deletedInPass,   \* the record was deleted between fetch and persist
    ctxCancelled,    \* the invocation context has been cancelled
    faulty,          \* requests to the API server may fail in transport
    strays,          \* children the API server holds under other names
    handled,         \* the last event of a watched object and its requests
    pair,            \* two records, their children and one pass for each
    deletedChildren  \* the kinds of children others deleted during the pass

vars == <<apiMCPServer, apiObjects, pc, mcpServer, originalStatus,
          overallReady, result, issued, queued, timer, now, deletedInPass,
          ctxCancelled, faulty, strays, handled, pair, deletedChildren>>

passVars == <<mcpServer, originalStatus, overallReady, result>>

-----------------------------------------------------------------------------
(* Bounds and inputs *)

\* the clock stops advancing here
MaxTime == 2

\* texts of the transport errors a request may fail with
ErrTexts == {"timeout"}

\* the ingress lists a Route's status may carry: each entry is the status
\* of its Admitted sub-condition ("None": the entry has no such condition)
IngressValues == {<< >>, <<"False">>, <<"True">>, <<"None", "True">>}

\* the values of a Deployment's Available sub-condition ("Absent": none)
AvailableValues == {"Absent", "False", "True"}

\* the commands and args a user may set in the spec of the record (<< >>:
\* the field is not set)
CommandValues == {<< >>, <<"/bin/sh">>}
ArgsValues == {<< >>, <<"-c", "echo 'custom'">>}

\* the images a user may set in the spec of the record
Images == {"image-1", "image-2"}

\* the owner references a watched object may carry: at most MaxOwners, of
\* an MCPServer or of another kind, in the operator's group/version or another
MaxOwners == 2
OwnerKinds == {"MCPServer", "ReplicaSet"}
OwnerAPIVersions == {"mcpserver.opendatahub.io/v1", "apps/v1"}
WatchedNames == {"mcp-server-test", "other"}
WatchedNamespaces == {"mcp-server-operator-system", "default"}

-----------------------------------------------------------------------------
(* Constants of the program *)

DeploymentAvailable == "DeploymentAvailable"
ServiceAvailable == "ServiceAvailable"
RouteAvailable == "RouteAvailable"
OverallAvailable == "Available"

ReasonNotFoundSuffix == "NotFound"
ReasonReadySuffix == "Ready"
ReasonNotReadySuffix == "NotReady"
ReasonGetFailedSuffix == "GetFailed"
ReasonRouteNotAdmitted == "RouteNotAdmitted"

\* the label key reconcileMCPServer* puts on the children
mcpServerAppLabelKey == "mcp-server"

\* the label key the watch predicate of SetupWithManager tests
labelPredicateKey == "opendatahub.io/mcp-server"

\* RequeueAfter: 15 * time.Second, in seconds
RequeueDelay == 15

Kinds == {"Deployment", "Service", "Route"}

\* mcpserverv1.GroupVersion.String() and the kind of the record
GroupVersion == "mcpserver.opendatahub.io/v1"
MCPServerKind == "MCPServer"

\* Command and Args of the container of the Deployment
DefaultMCPDeploymentCommand == <<"./kubernetes-mcp-server">>
DefaultMCPDeploymentArgs == <<"--sse-port", "8000">>

\* the identity of the record of the request
crName == "mcp-server-test"
crNamespace == "mcp-server-operator-system"
crUID == "uid-1"
crImage == "image-1"

-----------------------------------------------------------------------------
(* Errors *)

Nil == "nil"
NotFound == "NotFound"
AlreadyExists == "AlreadyExists"
CtxErr == "context canceled"

IsNotFound(err) == err = NotFound
IsAlreadyExists(err) == err = AlreadyExists

\* the errors a request can fail with whatever the cluster holds
TransportErrs == IF faulty THEN ErrTexts ELSE {}

\* outcomes of client.Get on an object that exists or not
ApiGetOutcomes(exists) ==
    IF ctxCancelled THEN {CtxErr}
    ELSE (IF exists THEN {Nil} ELSE {NotFound}) \cup TransportErrs

\* outcomes of client.Create on a name that is taken or not
ApiCreateOutcomes(exists) ==
    IF ctxCancelled THEN {CtxErr}
    ELSE (IF exists THEN {AlreadyExists} ELSE {Nil}) \cup TransportErrs

\* outcomes of Status().Update on a record that exists or not
ApiUpdateOutcomes(exists) ==
    IF ctxCancelled THEN {CtxErr}
    ELSE (IF exists THEN {Nil} ELSE {NotFound}) \cup TransportErrs

\* a request for the object of the kind under the key, and its answer
ReqAt(verb, kind, err, key) ==
    [verb |-> verb, kind |-> kind, err |-> err,
     name |-> key.name, namespace |-> key.namespace]

\* a request under the name and namespace of the record
Req(verb, kind, err) ==
    ReqAt(verb, kind, err, [name |-> crName, namespace |-> crNamespace])

-----------------------------------------------------------------------------
(* Objects *)

\* an object without owner references
NoOwner == << >>

\* intstr.FromString
FromString(val) == [type |-> "String", strVal |-> val, intVal |-> 0]

\* the parts of a child's spec the builders set, empty where a kind has none
NoSpec == [podLabels |-> {}, containerPorts |-> << >>, selector |-> {},
           ports |-> << >>, path |-> "", to |-> [kind |-> "", name |-> ""],
           targetPort |-> FromString("")]

NoObj == [exists |-> FALSE, name |-> "", namespace |-> "", ownerReferences |-> NoOwner,
          spec |-> NoSpec,
          labelKey |-> "", image |-> "", command |-> << >>, args |-> << >>,
          available |-> "Absent", ingress |-> << >>]

NoRecord == [name |-> "", namespace |-> "", uid |-> "", apiVersion |-> "", kind |-> "",
             image |-> "",
             command |-> << >>, args |-> << >>,
             conditions |-> << >>]

NoCondition == [type |-> "", status |-> "", reason |-> "", message |-> << >>,
                lastTransitionTime |-> 0]

NoResult == [RequeueAfter |-> 0, err |-> Nil]

\* no request, for no event
NoEvent == [obj |-> NoObj, requests |-> << >>]

\* an owner reference that names the record and leaves its type out
OwnerReferenceUntyped(cr) ==
    [apiVersion |-> "", kind |-> "", name |-> cr.name, uid |-> cr.uid]

\* the metav1.OwnerReference each builder sets: the TypeMeta, name and UID
\* of the record it was handed
OwnerReference(cr) ==
    [apiVersion |-> cr.apiVersion, kind |-> cr.kind, name |-> cr.name, uid |-> cr.uid]

\* labels := map[string]string{mcpServerAppLabelKey: cr.Name}
Labels(cr) == {[key |-> mcpServerAppLabelKey, value |-> cr.name]}

\* the Deployment, Service and Route specs the builders write
ChildSpec(kind, cr) ==
    CASE kind = "Deployment" ->
            [NoSpec EXCEPT !.selector = Labels(cr),
                           !.podLabels = Labels(cr),
                           !.containerPorts = <<[name |-> "http", containerPort |-> 8000]>>]
      [] kind = "Service" ->
            [NoSpec EXCEPT !.selector = Labels(cr),
                           !.ports = <<[name |-> "http", port |-> 8000,
                                        targetPort |-> FromString("http")]>>]
      [] kind = "Route" ->
            [NoSpec EXCEPT !.path = "/sse",
                           !.to = [kind |-> "Service", name |-> cr.name],
                           !.targetPort = FromString("8000")]

\* the objects whose events the watches can deliver
OwnerRefChoices ==
    {[apiVersion |-> v, kind |-> k, name |-> n, uid |-> "uid-1"] :
        v \in OwnerAPIVersions, k \in OwnerKinds, n \in WatchedNames}

WatchedObjects ==
    {[NoObj EXCEPT !.exists = TRUE, !.name = n, !.namespace = ns,
                   !.ownerReferences = refs] :
        n \in WatchedNames, ns \in WatchedNamespaces,
        refs \in UNION {[1..k -> OwnerRefChoices] : k \in 0..MaxOwners}}

\* a built object without the ownership link
DesiredObjectUnowned(kind, cr) ==
    [exists |-> TRUE,
     name |-> cr.name,
     namespace |-> cr.namespace,
     ownerReferences |-> NoOwner,
     labelKey |-> mcpServerAppLabelKey,
     spec |-> ChildSpec(kind, cr),
     image |-> IF kind = "Deployment" THEN cr.image ELSE "",
     command |-> IF kind = "Deployment" THEN DefaultMCPDeploymentCommand ELSE << >>,
     args |-> IF kind = "Deployment" THEN DefaultMCPDeploymentArgs ELSE << >>,
     available |-> "Absent",
     ingress |-> << >>]

\* a built object named after the image of the record
DesiredObjectNamedByImage(kind, cr) ==
    [exists |-> TRUE,
     name |-> cr.image,
     namespace |-> cr.namespace,
     ownerReferences |-> <<OwnerReference(cr)>>,
     labelKey |-> mcpServerAppLabelKey,
     spec |-> ChildSpec(kind, cr),
     image |-> IF kind = "Deployment" THEN cr.image ELSE "",
     command |-> IF kind = "Deployment" THEN DefaultMCPDeploymentCommand ELSE << >>,
     args |-> IF kind = "Deployment" THEN DefaultMCPDeploymentArgs ELSE << >>,
     available |-> "Absent",
     ingress |-> << >>]

\* a build that reads the clock
DesiredObjectByClock(kind, cr) ==
    [exists |-> TRUE,
     name |-> cr.name,
     namespace |-> cr.namespace,
     ownerReferences |-> <<OwnerReference(cr)>>,
     labelKey |-> mcpServerAppLabelKey,
     spec |-> ChildSpec(kind, cr),
     image |-> IF kind = "Deployment" THEN cr.image ELSE "",
     command |-> IF kind = "Deployment" THEN DefaultMCPDeploymentCommand ELSE << >>,
     args |-> IF kind = "Deployment" /\ now = 1 THEN DefaultMCPDeploymentArgs ELSE << >>,
     available |-> "Absent",
     ingress |-> << >>]

\* the object each reconcileMCPServer* function builds from the record
DesiredObject(kind, cr) ==
    [exists |-> TRUE,
     name |-> cr.name,
     namespace |-> cr.namespace,
     ownerReferences |-> <<OwnerReference(cr)>>,
     labelKey |-> mcpServerAppLabelKey,
     spec |-> ChildSpec(kind, cr),
     image |-> IF kind = "Deployment" THEN cr.image ELSE "",
     command |-> IF kind = "Deployment" THEN DefaultMCPDeploymentCommand ELSE << >>,
     args |-> IF kind = "Deployment" THEN DefaultMCPDeploymentArgs ELSE << >>,
     available |-> "Absent",
     ingress |-> << >>]

-----------------------------------------------------------------------------
(* Conditions: meta.FindStatusCondition, meta.SetStatusCondition *)

Cond(type, status, reason, message) ==
    [type |-> type, status |-> status, reason |-> reason,
     message |-> message, lastTransitionTime |-> 0]

HasCondition(conds, type) == \E i \in 1..Len(conds) : conds[i].type = type

\* index of the first condition of the type; 0 when there is none
FindIndex(conds, type) ==
    IF HasCondition(conds, type)
    THEN CHOOSE i \in 1..Len(conds) :
            /\ conds[i].type = type
            /\ \A j \in 1..(i - 1) : conds[j].type # type
    ELSE 0

FindStatusCondition(conds, type) ==
    IF HasCondition(conds, type) THEN conds[FindIndex(conds, type)]
    ELSE NoCondition

\* a merge that keeps the condition of the call alone
SetStatusConditionOnlyLast(conds, newCondition, t) ==
    <<[newCondition EXCEPT !.lastTransitionTime = t]>>

\* a merge that appends whatever the set holds
SetStatusConditionAppends(conds, newCondition, t) ==
    Append(conds, [newCondition EXCEPT !.lastTransitionTime = t])

\* a merge that stamps the entry at every call
SetStatusConditionStamps(conds, newCondition, t) ==
    IF ~HasCondition(conds, newCondition.type)
    THEN Append(conds, [newCondition EXCEPT !.lastTransitionTime = t])
    ELSE [conds EXCEPT ![FindIndex(conds, newCondition.type)] =
                [newCondition EXCEPT !.lastTransitionTime = t]]

\* a new type is appended with the time of the call; an existing entry keeps
\* its timestamp unless its status changes; reason and message are replaced
SetStatusCondition(conds, newCondition, t) ==
    IF ~HasCondition(conds, newCondition.type)
    THEN Append(conds, [newCondition EXCEPT !.lastTransitionTime = t])
    ELSE LET i == FindIndex(conds, newCondition.type)
             old == conds[i]
         IN [conds EXCEPT ![i] =
                [type |-> old.type,
                 status |-> newCondition.status,
                 reason |-> newCondition.reason,
                 message |-> newCondition.message,
                 lastTransitionTime |->
                     IF old.status # newCondition.status THEN t
                     ELSE old.lastTransitionTime]]

-----------------------------------------------------------------------------
(* The evaluators *)

\* fmt.Sprintf("%s%s", kind, suffix)
Sprintf(kind, suffix) ==
    CASE kind = "Deployment" /\ suffix = "NotFound" -> "DeploymentNotFound"
      [] kind = "Deployment" /\ suffix = "Ready" -> "DeploymentReady"
      [] kind = "Deployment" /\ suffix = "NotReady" -> "DeploymentNotReady"
      [] kind = "Deployment" /\ suffix = "GetFailed" -> "DeploymentGetFailed"
      [] kind = "Service" /\ suffix = "NotFound" -> "ServiceNotFound"
      [] kind = "Service" /\ suffix = "Ready" -> "ServiceReady"
      [] kind = "Service" /\ suffix = "NotReady" -> "ServiceNotReady"
      [] kind = "Service" /\ suffix = "GetFailed" -> "ServiceGetFailed"
      [] kind = "Route" /\ suffix = "NotFound" -> "RouteNotFound"
      [] kind = "Route" /\ suffix = "Ready" -> "RouteReady"
      [] kind = "Route" /\ suffix = "NotReady" -> "RouteNotReady"
      [] kind = "Route" /\ suffix = "GetFailed" -> "RouteGetFailed"

\* a Deployment counted as available unless it says it is not
DeploymentIsAvailableUnlessFalse(dep) == dep.available # "False"

\* meta.IsStatusConditionTrue on the Deployment's own conditions
DeploymentIsAvailable(dep) == dep.available = "True"

\* a failed read reported without the error text
getDeploymentConditionNoCause(err, dep, cr) ==
    IF err # Nil
    THEN IF IsNotFound(err)
         THEN Cond(DeploymentAvailable, "False", Sprintf("Deployment", ReasonNotFoundSuffix),
                   <<"Deployment ", cr.name, " cannot be found">>)
         ELSE Cond(DeploymentAvailable, "Unknown", Sprintf("Deployment", ReasonGetFailedSuffix),
                   <<"Failed to retrieve Deployment ", cr.name>>)
    ELSE IF ~DeploymentIsAvailable(dep)
         THEN Cond(DeploymentAvailable, "False", Sprintf("Deployment", ReasonNotReadySuffix),
                   <<"Deployment ", cr.name, " is not yet available">>)
         ELSE Cond(DeploymentAvailable, "True", Sprintf("Deployment", ReasonReadySuffix),
                   <<"Deployment ", cr.name, " is available">>)

getDeploymentCondition(err, dep, cr) ==
    IF err # Nil
    THEN IF IsNotFound(err)
         THEN Cond(DeploymentAvailable, "False", Sprintf("Deployment", ReasonNotFoundSuffix),
                   <<"Deployment ", cr.name, " cannot be found">>)
         ELSE Cond(DeploymentAvailable, "Unknown", Sprintf("Deployment", ReasonGetFailedSuffix),
                   <<"Failed to retrieve Deployment ", cr.name, ", ", err>>)
    ELSE IF ~DeploymentIsAvailable(dep)
         THEN Cond(DeploymentAvailable, "False", Sprintf("Deployment", ReasonNotReadySuffix),
                   <<"Deployment ", cr.name, " is not yet available">>)
         ELSE Cond(DeploymentAvailable, "True", Sprintf("Deployment", ReasonReadySuffix),
                   <<"Deployment ", cr.name, " is available">>)

\* a Service reported as missing on any failed read
getServiceConditionAnyErrNotFound(err, svc, cr) ==
    IF err # Nil
    THEN Cond(ServiceAvailable, "False", Sprintf("Service", ReasonNotFoundSuffix),
              <<"Service ", cr.name, " not found">>)
    ELSE Cond(ServiceAvailable, "True", Sprintf("Service", ReasonReadySuffix),
              <<"Service ", cr.name, " exists and is available">>)

getServiceCondition(err, svc, cr) ==
    IF err # Nil
    THEN IF IsNotFound(err)
         THEN Cond(ServiceAvailable, "False", Sprintf("Service", ReasonNotFoundSuffix),
                   <<"Service ", cr.name, " not found">>)
         ELSE Cond(ServiceAvailable, "Unknown", Sprintf("Service", ReasonGetFailedSuffix),
                   <<"Failed to get Service ", cr.name, ": ", err>>)
    ELSE Cond(ServiceAvailable, "True", Sprintf("Service", ReasonReadySuffix),
              <<"Service ", cr.name, " exists and is available">>)

\* a Route taken as admitted unless an ingress entry says it is not
RouteAdmittedUnlessRejected(route) ==
    \A i \in 1..Len(route.ingress) : route.ingress[i] # "False"

\* an admission read off the first ingress entry only
RouteAdmittedFirstEntry(route) ==
    Len(route.ingress) >= 1 /\ route.ingress[1] = "True"

\* the loop over route.Status.Ingress and each entry's conditions
RouteAdmitted(route) ==
    \E i \in 1..Len(route.ingress) : route.ingress[i] = "True"

getRouteCondition(err, route, cr) ==
    IF err # Nil
    THEN IF IsNotFound(err)
         THEN Cond(RouteAvailable, "False", Sprintf("Route", ReasonNotFoundSuffix),
                   <<"Route ", cr.name, " not found">>)
         ELSE Cond(RouteAvailable, "Unknown", Sprintf("Route", ReasonGetFailedSuffix),
                   <<"Failed to get Route ", cr.name, ": ", err>>)
    ELSE IF ~RouteAdmitted(route)
         THEN Cond(RouteAvailable, "False", ReasonRouteNotAdmitted,
                   <<"Route ", cr.name, " has not been admitted by a router yet">>)
         ELSE Cond(RouteAvailable, "True", Sprintf("Route", ReasonReadySuffix),
                   <<"Route ", cr.name, " is admitted and active">>)

\* depCondition == nil || depCondition.Status != metav1.ConditionTrue
NotTrue(conds, type) ==
    \/ ~HasCondition(conds, type)
    \/ FindStatusCondition(conds, type).status # "True"

\* an aggregation that leaves the Route out
getOverallConditionNoRoute(conds) ==
    IF NotTrue(conds, DeploymentAvailable)
    THEN Cond(OverallAvailable, "False", Sprintf("Deployment", ReasonNotReadySuffix),
              <<"Deployment is not yet ready">>)
    ELSE IF NotTrue(conds, ServiceAvailable)
    THEN Cond(OverallAvailable, "False", Sprintf("Service", ReasonNotReadySuffix),
              <<"Service is not yet ready">>)
    ELSE Cond(OverallAvailable, "True", "AllComponentsReady",
              <<"All managed components (Deployment, Service, Route) are ready">>)

\* an aggregation that checks the Route before the Service
getOverallConditionRouteFirst(conds) ==
    IF NotTrue(conds, DeploymentAvailable)
    THEN Cond(OverallAvailable, "False", Sprintf("Deployment", ReasonNotReadySuffix),
              <<"Deployment is not yet ready">>)
    ELSE IF NotTrue(conds, RouteAvailable)
    THEN Cond(OverallAvailable, "False", Sprintf("Route", ReasonNotReadySuffix),
              <<"Route is not yet ready">>)
    ELSE IF NotTrue(conds, ServiceAvailable)
    THEN Cond(OverallAvailable, "False", Sprintf("Service", ReasonNotReadySuffix),
              <<"Service is not yet ready">>)
    ELSE Cond(OverallAvailable, "True", "AllComponentsReady",
              <<"All managed components (Deployment, Service, Route) are ready">>)

getOverallCondition(conds) ==
    IF NotTrue(conds, DeploymentAvailable)
    THEN Cond(OverallAvailable, "False", Sprintf("Deployment", ReasonNotReadySuffix),
              <<"Deployment is not yet ready">>)
    ELSE IF NotTrue(conds, ServiceAvailable)
    THEN Cond(OverallAvailable, "False", Sprintf("Service", ReasonNotReadySuffix),
              <<"Service is not yet ready">>)
    ELSE IF NotTrue(conds, RouteAvailable)
    THEN Cond(OverallAvailable, "False", Sprintf("Route", ReasonNotReadySuffix),
              <<"Route is not yet ready">>)
    ELSE Cond(OverallAvailable, "True", "AllComponentsReady",
              <<"All managed components (Deployment, Service, Route) are ready">>)

-----------------------------------------------------------------------------
(* The Reconcile pass *)

\* positions at which the record has been fetched and status not yet persisted
MidPass == {"dep", "svc", "route", "getDep", "getSvc", "getRoute", "update"}

\* a create whose error is logged and dropped
ReconcileErrSwallowed(err) == Nil

\* a create without the already-exists exemption
ReconcileErrStrict(err) == err

\* err != nil && !k8serr.IsAlreadyExists(err)
ReconcileErr(err) == IF err # Nil /\ ~IsAlreadyExists(err) THEN err ELSE Nil

\* the API server keys an object by kind, namespace and name; apiObjects
\* holds the objects under the name and namespace of the record, strays the
\* objects under any other key
OwnKey(obj) == obj.name = crName /\ obj.namespace = crNamespace

\* the API server holds an object of the kind under the key of obj
NameTaken(kind, obj) ==
    IF OwnKey(obj) THEN apiObjects[kind].exists
    ELSE \E s \in strays :
            /\ s.kind = kind
            /\ s.obj.name = obj.name
            /\ s.obj.namespace = obj.namespace

\* what the API server holds of the kind under the key
ApiGet(kind, key) ==
    IF key.name = crName /\ key.namespace = crNamespace THEN apiObjects[kind]
    ELSE IF \E s \in strays : /\ s.kind = kind
                              /\ s.obj.name = key.name
                              /\ s.obj.namespace = key.namespace
         THEN (CHOOSE s \in strays : /\ s.kind = kind
                                     /\ s.obj.name = key.name
                                     /\ s.obj.namespace = key.namespace).obj
         ELSE NoObj

\* a key that leaves the namespace to the client's default
ObjectKeyDefaultNamespace(obj) == [name |-> obj.name, namespace |-> "default"]

\* client.ObjectKey{Name: cr.Name, Namespace: cr.Namespace}
ObjectKey(obj) == [name |-> obj.name, namespace |-> obj.namespace]

\* a create that replaces the object it finds
ApiCreateOrReplace(objs, kind, obj, err) ==
    IF err \in {Nil, AlreadyExists} /\ OwnKey(obj)
    THEN [objs EXCEPT ![kind] = obj] ELSE objs

\* what the API server holds after a Create that it answered with err
ApiCreate(objs, kind, obj, err) ==
    IF err = Nil /\ OwnKey(obj) THEN [objs EXCEPT ![kind] = obj] ELSE objs

\* the same, for an object built under another key
ApiCreateStray(set, kind, obj, err) ==
    IF err = Nil /\ ~OwnKey(obj) THEN set \cup {[kind |-> kind, obj |-> obj]}
    ELSE set

\* a pass that always asks for a requeue
RetryDecisionAlways(overall) == [RequeueAfter |-> RequeueDelay, err |-> Nil]

\* a pass that never asks for a requeue
RetryDecisionNever(overall) == [RequeueAfter |-> 0, err |-> Nil]

\* a requeue decided on the reason of the first check only
RetryDecisionDeploymentOnly(overall) ==
    IF overall.reason = "DeploymentNotReady"
    THEN [RequeueAfter |-> RequeueDelay, err |-> Nil]
    ELSE [RequeueAfter |-> 0, err |-> Nil]

\* the last lines of Reconcile: requeue while the overall condition is not True
RetryDecision(overall) ==
    IF overall.status # "True"
    THEN [RequeueAfter |-> RequeueDelay, err |-> Nil]
    ELSE [RequeueAfter |-> 0, err |-> Nil]

\* an error returned together with the requeue delay
FailWithRequeue(err) == [RequeueAfter |-> RequeueDelay, err |-> err]

\* return ctrl.Result{}, err
Fail(err) == [RequeueAfter |-> 0, err |-> err]

\* a fetch whose not-found is returned as an error
FetchErrResultStrict(err) == [RequeueAfter |-> 0, err |-> err]

\* the return after a failed fetch of the record: not-found is not an error
FetchErrResult(err) == IF IsNotFound(err) THEN NoResult ELSE Fail(err)

\* a status write whose error is not checked
UpdateResultUnchecked(err, overall) == RetryDecision(overall)

\* the return after the status write: its error, else the retry decision
UpdateResult(err, overall) == IF err # Nil THEN Fail(err) ELSE RetryDecision(overall)

\* a change detection that always sees a change
StatusChangedAlways(original, merged) == TRUE

\* !reflect.DeepEqual(originalStatus, &mcpServer.Status)
StatusChanged(original, merged) == merged # original

\* the work queue hands the request to Reconcile
StartPass ==
    /\ pc = "idle"
    /\ queued
    /\ queued' = FALSE
    /\ pc' = "fetch"
    /\ issued' = << >>
    /\ deletedInPass' = FALSE
    /\ ctxCancelled' = FALSE
    /\ deletedChildren' = {}
    /\ UNCHANGED <<apiMCPServer, apiObjects, passVars, timer, now, faulty, strays,
                   handled, pair>>

\* r.Client.Get of the record, the not-found and error returns, the snapshot
FetchMCPServer ==
    /\ pc = "fetch"
    /\ \E err \in ApiGetOutcomes(apiMCPServer.exists) :
        /\ issued' = Append(issued, Req("Get", "MCPServer", err))
        /\ IF err # Nil
           THEN /\ result' = FetchErrResult(err)
                /\ pc' = "done"
                /\ UNCHANGED <<mcpServer, originalStatus>>
           ELSE /\ mcpServer' = [name |-> apiMCPServer.name,
                                 namespace |-> apiMCPServer.namespace,
                                 uid |-> apiMCPServer.uid,
                                 apiVersion |-> apiMCPServer.apiVersion,
                                 kind |-> apiMCPServer.kind,
                                 image |-> apiMCPServer.image,
                                 command |-> apiMCPServer.command,
                                 args |-> apiMCPServer.args,
                                 conditions |-> apiMCPServer.conditions]
                /\ originalStatus' = apiMCPServer.conditions
                /\ pc' = "dep"
                /\ UNCHANGED result
    /\ UNCHANGED <<apiMCPServer, apiObjects, overallReady, queued, timer, now,
                   deletedInPass, ctxCancelled, faulty, strays, handled, pair, deletedChildren>>

\* one reconcileMCPServer<Kind> call and the caller's error check
ReconcileChild(kind, here, next) ==
    /\ pc = here
    /\ \E err \in ApiCreateOutcomes(NameTaken(kind, DesiredObject(kind, mcpServer))) :
        /\ issued' = Append(issued, ReqAt("Create", kind, err,
                                          ObjectKey(DesiredObject(kind, mcpServer))))
        /\ apiObjects' = ApiCreate(apiObjects, kind, DesiredObject(kind, mcpServer), err)
        /\ strays' = ApiCreateStray(strays, kind, DesiredObject(kind, mcpServer), err)
        /\ IF ReconcileErr(err) # Nil
           THEN /\ result' = Fail(ReconcileErr(err))
                /\ pc' = "done"
           ELSE /\ pc' = next
                /\ UNCHANGED result
    /\ UNCHANGED <<apiMCPServer, mcpServer, originalStatus, overallReady, queued,
                   timer, now, deletedInPass, ctxCancelled, faulty, handled, pair, deletedChildren>>

reconcileMCPServerDeployment == ReconcileChild("Deployment", "dep", "svc")

\* the Route reconciled in the place of the Service
reconcileMCPServerServiceAsRoute == ReconcileChild("Route", "svc", "route")

reconcileMCPServerService == ReconcileChild("Service", "svc", "route")

\* a pass that goes from the creates to the read of the Route
reconcileMCPServerRouteSkipsReads == ReconcileChild("Route", "route", "getRoute")

reconcileMCPServerRoute == ReconcileChild("Route", "route", "getDep")

\* meta.SetStatusCondition(&mcpServer.Status.Conditions, r.getDeploymentCondition(...))
EvaluateDeployment ==
    /\ pc = "getDep"
    /\ \E obj \in {ApiGet("Deployment", ObjectKey(mcpServer))} :
       \E err \in ApiGetOutcomes(obj.exists) :
        /\ issued' = Append(issued, ReqAt("Get", "Deployment", err, ObjectKey(mcpServer)))
        /\ mcpServer' = [mcpServer EXCEPT !.conditions =
              SetStatusCondition(@, getDeploymentCondition(err, obj, mcpServer), now)]
    /\ pc' = "getSvc"
    /\ UNCHANGED <<apiMCPServer, apiObjects, originalStatus, overallReady, result,
                   queued, timer, now, deletedInPass, ctxCancelled, faulty, strays, handled, pair, deletedChildren>>

\* meta.SetStatusCondition(&mcpServer.Status.Conditions, r.getServiceCondition(...))
EvaluateService ==
    /\ pc = "getSvc"
    /\ \E obj \in {ApiGet("Service", ObjectKey(mcpServer))} :
       \E err \in ApiGetOutcomes(obj.exists) :
        /\ issued' = Append(issued, ReqAt("Get", "Service", err, ObjectKey(mcpServer)))
        /\ mcpServer' = [mcpServer EXCEPT !.conditions =
              SetStatusCondition(@, getServiceCondition(err, obj, mcpServer), now)]
    /\ pc' = "getRoute"
    /\ UNCHANGED <<apiMCPServer, apiObjects, originalStatus, overallReady, result,
                   queued, timer, now, deletedInPass, ctxCancelled, faulty, strays, handled, pair, deletedChildren>>

\* the Route evaluation, the aggregation, and the change detection (each
\* intermediate value of the pass is computed once, as the code does)
EvaluateRoute ==
    /\ pc = "getRoute"
    /\ \E obj \in {ApiGet("Route", ObjectKey(mcpServer))} :
        \E err \in ApiGetOutcomes(obj.exists) :
        \E withRoute \in {SetStatusCondition(mcpServer.conditions,
                             getRouteCondition(err, obj, mcpServer), now)} :
        \E overall \in {getOverallCondition(withRoute)} :
        \E merged \in {SetStatusCondition(withRoute, overall, now)} :
           /\ issued' = Append(issued, ReqAt("Get", "Route", err, ObjectKey(mcpServer)))
           /\ mcpServer' = [mcpServer EXCEPT !.conditions = merged]
           /\ overallReady' = overall
           /\ IF StatusChanged(originalStatus, merged)
              THEN /\ pc' = "update"
                   /\ UNCHANGED result
              ELSE /\ pc' = "done"
                   /\ result' = RetryDecision(overall)
    /\ UNCHANGED <<apiMCPServer, apiObjects, originalStatus, queued, timer, now,
                   deletedInPass, ctxCancelled, faulty, strays, handled, pair, deletedChildren>>

\* r.Status().Update and the decision to requeue; the record's own update
\* event puts a request for it in the work queue
UpdateStatus ==
    /\ pc = "update"
    /\ \E err \in ApiUpdateOutcomes(apiMCPServer.exists) :
        /\ issued' = Append(issued, ReqAt("Update", "MCPServer", err, ObjectKey(mcpServer)))
        /\ result' = UpdateResult(err, overallReady)
        /\ IF err # Nil
           THEN UNCHANGED <<apiMCPServer, queued>>
           ELSE /\ apiMCPServer' = [apiMCPServer EXCEPT !.conditions = mcpServer.conditions]
                /\ queued' = TRUE
    /\ pc' = "done"
    /\ UNCHANGED <<apiObjects, mcpServer, originalStatus, overallReady, timer, now,
                   deletedInPass, ctxCancelled, faulty, strays, handled, pair, deletedChildren>>

\* Reconcile has returned: the controller requeues on an error, arms the
\* delay on RequeueAfter, and otherwise forgets the request
Return ==
    /\ pc = "done"
    /\ pc' = "idle"
    /\ queued' = (queued \/ result.err # Nil)
    /\ timer' = (timer \/ (result.err = Nil /\ result.RequeueAfter > 0))
    /\ mcpServer' = NoRecord
    /\ originalStatus' = << >>
    /\ overallReady' = NoCondition
    /\ result' = NoResult
    /\ issued' = << >>
    /\ deletedInPass' = FALSE
    /\ ctxCancelled' = FALSE
    /\ deletedChildren' = {}
    /\ UNCHANGED <<apiMCPServer, apiObjects, now, faulty, strays, handled, pair>>

\* the delay of a RequeueAfter has passed
TimerFires ==
    /\ timer
    /\ timer' = FALSE
    /\ queued' = TRUE
    /\ UNCHANGED <<apiMCPServer, apiObjects, pc, passVars, issued, now,
                   deletedInPass, ctxCancelled, faulty, strays, handled, pair, deletedChildren>>

-----------------------------------------------------------------------------
(* The environment: the cluster and its other actors *)

\* labelPredicate: an event of a child passes when it carries the watched label
PassesPredicate(obj) == obj.labelKey = labelPredicateKey

\* ownerRef.Kind == "MCPServer" && ownerRef.APIVersion == GroupVersion.String()
IsMCPServerOwner(ownerRef) ==
    ownerRef.kind = MCPServerKind /\ ownerRef.apiVersion = GroupVersion

\* the loop of mapResourceToMCPServer from position i on: the request for
\* the first owner reference that names an MCPServer, else the fallback
RECURSIVE MapFrom(_, _)
MapFrom(obj, i) ==
    IF i > Len(obj.ownerReferences)
    THEN <<[name |-> obj.name, namespace |-> obj.namespace]>>
    ELSE IF IsMCPServerOwner(obj.ownerReferences[i])
         THEN <<[name |-> obj.ownerReferences[i].name, namespace |-> obj.namespace]>>
         ELSE MapFrom(obj, i + 1)

\* a mapping that takes the first owner reference whatever it names
mapResourceToMCPServerAnyOwner(obj) ==
    IF Len(obj.ownerReferences) > 0
    THEN <<[name |-> obj.ownerReferences[1].name, namespace |-> obj.namespace]>>
    ELSE <<[name |-> obj.name, namespace |-> obj.namespace]>>

\* mapResourceToMCPServer: the requests for an event of a watched object
mapResourceToMCPServer(obj) == MapFrom(obj, 1)

\* handler.EnqueueRequestsFromMapFunc(r.mapResourceToMCPServer) on an event
\* of a watched object
MapEvent ==
    /\ \E obj \in WatchedObjects :
          handled' = [obj |-> obj, requests |-> mapResourceToMCPServer(obj)]
    /\ UNCHANGED <<apiMCPServer, apiObjects, pc, passVars, issued, queued, timer,
                   now, deletedInPass, ctxCancelled, faulty, strays, pair, deletedChildren>>

\* an event of a child reaches the work queue of the record
ChildEventQueued(obj) ==
    queued \/ (/\ PassesPredicate(obj)
               /\ \E i \in 1..Len(mapResourceToMCPServer(obj)) :
                     mapResourceToMCPServer(obj)[i] =
                         [name |-> crName, namespace |-> crNamespace])

\* the Deployment controller reports Available sub-condition v
DeploymentStatusChangesTo(v) ==
    /\ apiObjects["Deployment"].exists
    /\ apiObjects["Deployment"].available # v
    /\ apiObjects' = [apiObjects EXCEPT !["Deployment"].available = v]
    /\ queued' = ChildEventQueued(apiObjects["Deployment"])
    /\ UNCHANGED <<apiMCPServer, pc, passVars, issued, timer, now, deletedInPass,
                   ctxCancelled, faulty, strays, handled, pair, deletedChildren>>

DeploymentStatusChanges == \E v \in AvailableValues : DeploymentStatusChangesTo(v)

\* a router reports ingress entries v on the Route
RouteStatusChangesTo(v) ==
    /\ apiObjects["Route"].exists
    /\ apiObjects["Route"].ingress # v
    /\ apiObjects' = [apiObjects EXCEPT !["Route"].ingress = v]
    /\ queued' = ChildEventQueued(apiObjects["Route"])
    /\ UNCHANGED <<apiMCPServer, pc, passVars, issued, timer, now, deletedInPass,
                   ctxCancelled, faulty, strays, handled, pair, deletedChildren>>

RouteStatusChanges == \E v \in IngressValues : RouteStatusChangesTo(v)

\* the children deleted by others since the pass fetched the record
DeletedDuringPass(kind) ==
    IF pc \in MidPass THEN deletedChildren \cup {kind} ELSE deletedChildren

\* an external actor deletes a child
DeleteChild ==
    /\ \E kind \in Kinds :
        /\ apiObjects[kind].exists
        /\ apiObjects' = [apiObjects EXCEPT ![kind] = NoObj]
        /\ queued' = ChildEventQueued(apiObjects[kind])
        /\ deletedChildren' = DeletedDuringPass(kind)
    /\ UNCHANGED <<apiMCPServer, pc, passVars, issued, timer, now, deletedInPass,
                   ctxCancelled, faulty, strays, handled, pair>>

\* an external actor deletes the record; its delete event is queued
DeleteMCPServer ==
    /\ apiMCPServer.exists
    /\ apiMCPServer' = [apiMCPServer EXCEPT !.exists = FALSE, !.conditions = << >>]
    /\ queued' = TRUE
    /\ deletedInPass' = (deletedInPass \/ pc \in MidPass)
    /\ UNCHANGED <<apiObjects, pc, passVars, issued, timer, now, ctxCancelled, faulty, strays, handled, pair, deletedChildren>>

\* a user changes spec.image of the record; the update event of the record
\* is queued (the watch of the record itself has no predicate)
UpdateMCPServerSpec ==
    /\ apiMCPServer.exists
    /\ \E image \in Images :
        /\ image # apiMCPServer.image
        /\ apiMCPServer' = [apiMCPServer EXCEPT !.image = image]
    /\ queued' = TRUE
    /\ UNCHANGED <<apiObjects, pc, passVars, issued, timer, now, deletedInPass,
                   ctxCancelled, faulty, strays, handled, pair, deletedChildren>>

\* the ownership cascade: a child whose owner is gone is collected
GarbageCollect ==
    /\ ~apiMCPServer.exists
    /\ \E kind \in Kinds :
        /\ apiObjects[kind].exists
        /\ \E i \in 1..Len(apiObjects[kind].ownerReferences) :
              apiObjects[kind].ownerReferences[i].uid = apiMCPServer.uid
        /\ apiObjects' = [apiObjects EXCEPT ![kind] = NoObj]
        /\ queued' = ChildEventQueued(apiObjects[kind])
        /\ deletedChildren' = DeletedDuringPass(kind)
    /\ UNCHANGED <<apiMCPServer, pc, passVars, issued, timer, now, deletedInPass,
                   ctxCancelled, faulty, strays, handled, pair>>

\* the transport to the API server recovers: requests stop failing
TransportRecovers ==
    /\ faulty
    /\ faulty' = FALSE
    /\ UNCHANGED <<apiMCPServer, apiObjects, pc, passVars, issued, queued, timer,
                   now, deletedInPass, ctxCancelled, strays, handled, pair, deletedChildren>>

\* the caller cancels the context of the running invocation (shutdown)
CancelContext ==
    /\ pc \in MidPass \cup {"fetch"}
    /\ ~ctxCancelled
    /\ ctxCancelled' = TRUE
    /\ UNCHANGED <<apiMCPServer, apiObjects, pc, passVars, issued, queued, timer,
                   now, deletedInPass, faulty, strays, handled, pair, deletedChildren>>

\* a request for the record is delivered again (an event of the record, a
\* resynchronisation of its watch)
Redeliver ==
    /\ pc = "idle"
    /\ ~queued
    /\ queued' = TRUE
    /\ UNCHANGED <<apiMCPServer, apiObjects, pc, passVars, issued, timer, now,
                   deletedInPass, ctxCancelled, faulty, strays, handled, pair,
                   deletedChildren>>

\* time passes
Tick ==
    /\ now < MaxTime
    /\ now' = now + 1
    /\ UNCHANGED <<apiMCPServer, apiObjects, pc, passVars, issued, queued, timer,
                   deletedInPass, ctxCancelled, faulty, strays, handled, pair, deletedChildren>>

-----------------------------------------------------------------------------
(* Two records: Reconcile invoked for each, over one cluster *)

RecordIds == {"a", "b"}

\* the name and namespace a second record may have beside the first
OtherIdentities == {[name |-> "other", namespace |-> crNamespace],
                    [name |-> crName, namespace |-> "default"]}

NoPass == [pc |-> "fetch", mcpServer |-> NoRecord, originalStatus |-> << >>,
           overallReady |-> NoCondition, result |-> NoResult, issued |-> << >>]

NoWorld == [records |-> << >>, store |-> {}, passes |-> << >>]

NoPair == [start |-> NoWorld, world |-> NoWorld, overlapped |-> FALSE]

\* a record as a user has created it
NewRecord(key, uid) ==
    [exists |-> TRUE, name |-> key.name, namespace |-> key.namespace, uid |-> uid,
     apiVersion |-> GroupVersion, kind |-> MCPServerKind, image |-> crImage,
     command |-> << >>, args |-> << >>, conditions |-> << >>]

\* a child of the record as the cluster may hold it before the passes
ChildOf(kind, rec, available, ingress) ==
    [kind |-> kind,
     obj |-> [DesiredObject(kind, rec) EXCEPT
                 !.name = rec.name, !.namespace = rec.namespace,
                 !.available = IF kind = "Deployment" THEN available ELSE "Absent",
                 !.ingress = IF kind = "Route" THEN ingress ELSE << >>]]

\* the children of a record before the passes: none, the Deployment alone,
\* the three not ready, the three ready
ChildrenChoices(rec) ==
    { {},
      {ChildOf("Deployment", rec, "True", << >>)},
      {ChildOf(kind, rec, "False", << >>) : kind \in Kinds},
      {ChildOf(kind, rec, "True", <<"True">>) : kind \in Kinds} }

\* the API server holds an object of the kind under the key
StoreHas(store, kind, key) ==
    \E s \in store : /\ s.kind = kind
                     /\ s.obj.name = key.name
                     /\ s.obj.namespace = key.namespace

\* client.Get: the object under the key, and its error
StoreGet(store, kind, key) ==
    IF StoreHas(store, kind, key)
    THEN (CHOOSE s \in store : /\ s.kind = kind
                               /\ s.obj.name = key.name
                               /\ s.obj.namespace = key.namespace).obj
    ELSE NoObj

StoreGetErr(store, kind, key) == IF StoreHas(store, kind, key) THEN Nil ELSE NotFound

\* client.Create: the error, and what the API server holds afterwards
StoreCreateErr(store, kind, obj) ==
    IF StoreHas(store, kind, ObjectKey(obj)) THEN AlreadyExists ELSE Nil

StoreCreate(store, kind, obj) ==
    IF StoreHas(store, kind, ObjectKey(obj)) THEN store
    ELSE store \cup {[kind |-> kind, obj |-> obj]}

\* r.Get(ctx, req.NamespacedName, mcpServer) and the snapshot
PairFetch(w, id) ==
    LET rec == w.records[id]
        err == IF rec.exists THEN Nil ELSE NotFound
        p == w.passes[id]
    IN IF err # Nil
       THEN [w EXCEPT !.passes[id] =
                [p EXCEPT !.pc = "done", !.result = FetchErrResult(err),
                          !.issued = Append(@, ReqAt("Get", "MCPServer", err, ObjectKey(rec)))]]
       ELSE [w EXCEPT !.passes[id] =
                [p EXCEPT !.pc = "dep",
                          !.mcpServer = [name |-> rec.name, namespace |-> rec.namespace,
                                         uid |-> rec.uid, apiVersion |-> rec.apiVersion,
                                         kind |-> rec.kind, image |-> rec.image,
                                         command |-> rec.command, args |-> rec.args,
                                         conditions |-> rec.conditions],
                          !.originalStatus = rec.conditions,
                          !.issued = Append(@, ReqAt("Get", "MCPServer", err, ObjectKey(rec)))]]

\* one reconcileMCPServer<Kind> call and the caller's error check
PairReconcileChild(w, id, kind, next) ==
    LET p == w.passes[id]
        obj == DesiredObject(kind, p.mcpServer)
        err == StoreCreateErr(w.store, kind, obj)
    IN [w EXCEPT !.store = StoreCreate(@, kind, obj),
                 !.passes[id] =
                    [p EXCEPT !.issued = Append(@, ReqAt("Create", kind, err, ObjectKey(obj))),
                              !.pc = IF ReconcileErr(err) # Nil THEN "done" ELSE next,
                              !.result = IF ReconcileErr(err) # Nil
                                         THEN Fail(ReconcileErr(err)) ELSE @]]

\* the condition of one child, as its evaluator reads it
PairCondition(w, id, kind) ==
    LET cr == w.passes[id].mcpServer
        obj == StoreGet(w.store, kind, ObjectKey(cr))
        err == StoreGetErr(w.store, kind, ObjectKey(cr))
    IN CASE kind = "Deployment" -> getDeploymentCondition(err, obj, cr)
         [] kind = "Service" -> getServiceCondition(err, obj, cr)
         [] kind = "Route" -> getRouteCondition(err, obj, cr)

\* meta.SetStatusCondition(&mcpServer.Status.Conditions, r.get<Kind>Condition(...))
PairEvaluate(w, id, kind, next) ==
    LET p == w.passes[id]
        key == ObjectKey(p.mcpServer)
    IN [w EXCEPT !.passes[id] =
           [p EXCEPT !.issued = Append(@, ReqAt("Get", kind,
                                                StoreGetErr(w.store, kind, key), key)),
                     !.mcpServer.conditions =
                         SetStatusCondition(@, PairCondition(w, id, kind), now),
                     !.pc = next]]

\* the aggregation and the change detection
PairAggregate(w, id) ==
    LET p == w.passes[id]
        overall == getOverallCondition(p.mcpServer.conditions)
        merged == SetStatusCondition(p.mcpServer.conditions, overall, now)
    IN [w EXCEPT !.passes[id] =
           [p EXCEPT !.mcpServer.conditions = merged,
                     !.overallReady = overall,
                     !.pc = IF StatusChanged(p.originalStatus, merged)
                            THEN "update" ELSE "done",
                     !.result = IF StatusChanged(p.originalStatus, merged)
                                THEN @ ELSE RetryDecision(overall)]]

\* r.Status().Update and the decision to requeue
PairUpdateStatus(w, id) ==
    LET p == w.passes[id]
        err == IF w.records[id].exists THEN Nil ELSE NotFound
    IN [w EXCEPT !.records[id].conditions =
                    IF err = Nil THEN p.mcpServer.conditions ELSE @,
                 !.passes[id] =
                    [p EXCEPT !.issued = Append(@, ReqAt("Update", "MCPServer", err,
                                                         ObjectKey(p.mcpServer))),
                              !.result = UpdateResult(err, p.overallReady),
                              !.pc = "done"]]

\* the next request of Reconcile for the record, and what follows it up to
\* the request after
PassStep(w, id) ==
    CASE w.passes[id].pc = "fetch" -> PairFetch(w, id)
      [] w.passes[id].pc = "dep" -> PairReconcileChild(w, id, "Deployment", "svc")
      [] w.passes[id].pc = "svc" -> PairReconcileChild(w, id, "Service", "route")
      [] w.passes[id].pc = "route" -> PairReconcileChild(w, id, "Route", "getDep")
      [] w.passes[id].pc = "getDep" -> PairEvaluate(w, id, "Deployment", "getSvc")
      [] w.passes[id].pc = "getSvc" -> PairEvaluate(w, id, "Service", "getRoute")
      [] w.passes[id].pc = "getRoute" ->
            PairAggregate(PairEvaluate(w, id, "Route", "getRoute"), id)
      [] w.passes[id].pc = "update" -> PairUpdateStatus(w, id)
      [] OTHER -> w

\* Reconcile for the record, from where its pass stands to its return
RECURSIVE RunPass(_, _)
RunPass(w, id) ==
    IF w.passes[id].pc = "done" THEN w ELSE RunPass(PassStep(w, id), id)

\* the pass of the record has issued a request and has not returned
Running(w, id) == w.passes[id].pc \notin {"fetch", "done"}

\* one of the two invocations of Reconcile issues its next request
PairStep ==
    /\ \E id \in RecordIds :
        /\ pair.world.passes[id].pc # "done"
        /\ pair' = [pair EXCEPT
               !.world = PassStep(@, id),
               !.overlapped = @ \/ \E other \in RecordIds \ {id} :
                                       Running(pair.world, other)]
    /\ UNCHANGED <<apiMCPServer, apiObjects, pc, passVars, issued, queued, timer,
                   now, deletedInPass, ctxCancelled, faulty, strays, handled, deletedChildren>>

-----------------------------------------------------------------------------
(* Specifications *)

\* a record a user has just created: no status, no children, its create
\* event queued
Init ==
    /\ apiMCPServer = [exists |-> TRUE, name |-> crName, namespace |-> crNamespace,
                       uid |-> crUID, apiVersion |-> GroupVersion, kind |-> MCPServerKind,
                       image |-> crImage, command |-> << >>, args |-> << >>,
                       conditions |-> << >>]
    /\ apiObjects = [kind \in Kinds |-> NoObj]
    /\ pc = "idle"
    /\ mcpServer = NoRecord
    /\ originalStatus = << >>
    /\ overallReady = NoCondition
    /\ result = NoResult
    /\ issued = << >>
    /\ queued = TRUE
    /\ timer = FALSE
    /\ now = 1
    /\ deletedInPass = FALSE
    /\ ctxCancelled = FALSE
    /\ faulty = TRUE
    /\ strays = {}
    /\ handled = NoEvent
    /\ pair = NoPair
    /\ deletedChildren = {}

Pass ==
    \/ StartPass
    \/ FetchMCPServer
    \/ reconcileMCPServerDeployment
    \/ reconcileMCPServerService
    \/ reconcileMCPServerRoute
    \/ EvaluateDeployment
    \/ EvaluateService
    \/ EvaluateRoute
    \/ UpdateStatus
    \/ Return
    \/ TimerFires

Env ==
    \/ DeploymentStatusChanges
    \/ RouteStatusChanges
    \/ DeleteChild
    \/ GarbageCollect

\* the environment acts on the children between passes only
QuietEnv ==
    /\ pc = "idle"
    /\ Env

\* the passes of one record; the record may be deleted at any moment, the
\* children change between passes
Next == Pass \/ QuietEnv \/ DeleteMCPServer

Spec == Init /\ [][Next]_vars

\* the aggregator alone, on every combination of the three child conditions
\* ("absent": the record has no condition of the type), behind a stale
\* overall condition or none
ChildStatusChoices == {"absent", "True", "False", "Unknown"}

ChildInput(type, status) ==
    IF status = "absent" THEN << >>
    ELSE <<[type |-> type, status |-> status, reason |-> "Any",
            message |-> << >>, lastTransitionTime |-> 1]>>

InitAgg ==
    /\ \E d \in ChildStatusChoices, sv \in ChildStatusChoices,
          r \in ChildStatusChoices, stale \in BOOLEAN :
          mcpServer = [name |-> crName, namespace |-> crNamespace, uid |-> crUID,
                    apiVersion |-> GroupVersion, kind |-> MCPServerKind,
                       image |-> crImage, command |-> << >>, args |-> << >>,
                       conditions |->
                           (IF stale
                            THEN <<[type |-> OverallAvailable, status |-> "True",
                                    reason |-> "AllComponentsReady",
                                    message |-> << >>, lastTransitionTime |-> 1]>>
                            ELSE << >>)
                           \o ChildInput(DeploymentAvailable, d)
                           \o ChildInput(ServiceAvailable, sv)
                           \o ChildInput(RouteAvailable, r)]
    /\ apiMCPServer = [exists |-> TRUE, name |-> crName, namespace |-> crNamespace,
                       uid |-> crUID, apiVersion |-> GroupVersion, kind |-> MCPServerKind,
                       image |-> crImage, command |-> << >>, args |-> << >>,
                       conditions |-> << >>]
    /\ apiObjects = [kind \in Kinds |-> NoObj]
    /\ pc = "aggregate"
    /\ originalStatus = << >>
    /\ overallReady = NoCondition
    /\ result = NoResult
    /\ issued = << >>
    /\ queued = FALSE
    /\ timer = FALSE
    /\ now = 1
    /\ deletedInPass = FALSE
    /\ ctxCancelled = FALSE
    /\ faulty = TRUE
    /\ strays = {}
    /\ handled = NoEvent
    /\ pair = NoPair
    /\ deletedChildren = {}

\* overallReady := r.getOverallCondition(mcpServer)
Aggregate ==
    /\ pc = "aggregate"
    /\ overallReady' = getOverallCondition(mcpServer.conditions)
    /\ pc' = "aggregated"
    /\ UNCHANGED <<apiMCPServer, apiObjects, mcpServer, originalStatus, result,
                   issued, queued, timer, now, deletedInPass, ctxCancelled, faulty, strays, handled, pair, deletedChildren>>

NextAgg == Aggregate

SpecAgg == InitAgg /\ [][NextAgg]_vars

\* the passes of a record whose children, once created, become ready and stay
\* so, and whose requests eventually stop failing
DeploymentBecomesAvailable == DeploymentStatusChangesTo("True")

RouteBecomesAdmitted == RouteStatusChangesTo(<<"True">>)

BecomesReady ==
    \/ DeploymentBecomesAvailable
    \/ RouteBecomesAdmitted
    \/ TransportRecovers

NextLive == Pass \/ BecomesReady

\* a request in the queue is started, a started pass runs to its return, a
\* pending delay fires (at most one of the steps of a pass is enabled at a
\* time, and the delay, once fired, is re-armed only by a return); the
\* children that exist become ready and the transport recovers (each of the
\* three happens once and stays)
FairLive ==
    /\ WF_vars(Pass)
    /\ WF_vars(BecomesReady)

SpecLive == Init /\ [][NextLive]_vars /\ FairLive

\* the passes of a record created with or without a command and args
InitCmd ==
    /\ \E command \in CommandValues, args \in ArgsValues :
          apiMCPServer = [exists |-> TRUE, name |-> crName, namespace |-> crNamespace,
                          uid |-> crUID, apiVersion |-> GroupVersion, kind |-> MCPServerKind,
                       image |-> crImage, command |-> command,
                          args |-> args, conditions |-> << >>]
    /\ apiObjects = [kind \in Kinds |-> NoObj]
    /\ pc = "idle"
    /\ mcpServer = NoRecord
    /\ originalStatus = << >>
    /\ overallReady = NoCondition
    /\ result = NoResult
    /\ issued = << >>
    /\ queued = TRUE
    /\ timer = FALSE
    /\ now = 1
    /\ deletedInPass = FALSE
    /\ ctxCancelled = FALSE
    /\ faulty = TRUE
    /\ strays = {}
    /\ handled = NoEvent
    /\ pair = NoPair
    /\ deletedChildren = {}

NextCmd == Pass

SpecCmd == InitCmd /\ [][NextCmd]_vars

\* the three evaluators alone: a pass that has created the children reads
\* them after the cluster and other actors have had their way with them
ChildChoices(kind) ==
    LET built == DesiredObject(kind, [name |-> crName, namespace |-> crNamespace,
                                      uid |-> crUID, apiVersion |-> GroupVersion, kind |-> MCPServerKind,
                       image |-> crImage])
    IN {NoObj} \cup
       CASE kind = "Deployment" ->
                {[built EXCEPT !.available = v] : v \in AvailableValues}
         [] kind = "Service" ->
                {built, [built EXCEPT !.ownerReferences = NoOwner, !.labelKey = ""]}
         [] kind = "Route" ->
                {[built EXCEPT !.ingress = v] : v \in IngressValues}

InitEval ==
    /\ apiMCPServer = [exists |-> TRUE, name |-> crName, namespace |-> crNamespace,
                       uid |-> crUID, apiVersion |-> GroupVersion, kind |-> MCPServerKind,
                       image |-> crImage, command |-> << >>, args |-> << >>,
                       conditions |-> << >>]
    /\ apiObjects \in [Kinds -> UNION {ChildChoices(kind) : kind \in Kinds}]
    /\ \A kind \in Kinds : apiObjects[kind] \in ChildChoices(kind)
    /\ pc = "getDep"
    /\ mcpServer = [name |-> crName, namespace |-> crNamespace, uid |-> crUID,
                    apiVersion |-> GroupVersion, kind |-> MCPServerKind,
                    image |-> crImage, command |-> << >>, args |-> << >>,
                       conditions |-> << >>]
    /\ originalStatus = << >>
    /\ overallReady = NoCondition
    /\ result = NoResult
    /\ issued = <<Req("Get", "MCPServer", Nil), Req("Create", "Deployment", Nil),
                  Req("Create", "Service", Nil), Req("Create", "Route", Nil)>>
    /\ queued = FALSE
    /\ timer = FALSE
    /\ now = 1
    /\ deletedInPass = FALSE
    /\ ctxCancelled = FALSE
    /\ faulty = TRUE
    /\ strays = {}
    /\ handled = NoEvent
    /\ pair = NoPair
    /\ deletedChildren = {}

NextEval == EvaluateDeployment \/ EvaluateService \/ EvaluateRoute

SpecEval == InitEval /\ [][NextEval]_vars

\* the passes of a record under a clock that advances at any moment, the
\* Deployment changing its status between passes
DeploymentFlaps ==
    /\ pc = "idle"
    /\ DeploymentStatusChanges

NextClock == Pass \/ DeploymentFlaps \/ Tick

SpecClock == Init /\ [][NextClock]_vars

\* the passes of a record whose spec a user edits at any moment and whose
\* children change between passes
NextDrift == Pass \/ QuietEnv \/ UpdateMCPServerSpec

SpecDrift == Init /\ [][NextDrift]_vars

\* the passes of one record whose invocation may be cancelled at any request
NextCancel == Pass \/ DeploymentFlaps \/ CancelContext

SpecCancel == Init /\ [][NextCancel]_vars

\* the readiness of a child changes, or the child is deleted, between passes
WatchedChange ==
    /\ pc = "idle"
    /\ \/ DeploymentStatusChanges
       \/ RouteStatusChanges
       \/ DeleteChild

NextWatch == Pass \/ WatchedChange \/ TransportRecovers

\* a request in the queue is started, a started pass runs to its return, a
\* pending delay fires, and the transport recovers; the children change as
\* they please
FairWatch ==
    /\ WF_vars(Pass)
    /\ WF_vars(TransportRecovers)

\* the passes of one record and the watches on its children
SpecWatch == Init /\ [][NextWatch]_vars /\ FairWatch

\* two records of different identities, each with a request delivered, over
\* a cluster that holds some of their children
PairWorlds ==
    {[records |-> [id \in RecordIds |->
                      IF id = "a" THEN NewRecord([name |-> crName,
                                                  namespace |-> crNamespace], "uid-1")
                      ELSE NewRecord(other, "uid-2")],
      store |-> ca \cup cb,
      passes |-> [id \in RecordIds |-> NoPass]] :
        other \in OtherIdentities,
        ca \in ChildrenChoices(NewRecord([name |-> crName,
                                          namespace |-> crNamespace], "uid-1")),
        cb \in UNION {ChildrenChoices(NewRecord(o, "uid-2")) : o \in OtherIdentities}}

InitPair ==
    /\ apiMCPServer = [exists |-> TRUE, name |-> crName, namespace |-> crNamespace,
                       uid |-> crUID, apiVersion |-> GroupVersion, kind |-> MCPServerKind,
                       image |-> crImage, command |-> << >>, args |-> << >>,
                       conditions |-> << >>]
    /\ apiObjects = [kind \in Kinds |-> NoObj]
    /\ pc = "idle"
    /\ mcpServer = NoRecord
    /\ originalStatus = << >>
    /\ overallReady = NoCondition
    /\ result = NoResult
    /\ issued = << >>
    /\ queued = FALSE
    /\ timer = FALSE
    /\ now = 1
    /\ deletedInPass = FALSE
    /\ ctxCancelled = FALSE
    /\ faulty = FALSE
    /\ strays = {}
    /\ handled = NoEvent
    /\ deletedChildren = {}
    /\ \E w \in PairWorlds :
          /\ \A s \in w.store : \E id \in RecordIds :
                ObjectKey(s.obj) = ObjectKey(w.records[id])
          /\ pair = [start |-> w, world |-> w, overlapped |-> FALSE]

\* the two invocations of Reconcile, interleaved request by request
NextPair == PairStep

SpecPair == InitPair /\ [][NextPair]_vars

\* another actor deletes a child while a pass is under way
DeleteChildMidPass ==
    /\ pc \in MidPass
    /\ DeleteChild

\* the passes of one record whose children others may delete under them
NextDelete == Pass \/ DeleteChildMidPass

SpecDelete == Init /\ [][NextDelete]_vars

\* another actor deletes the Deployment after its create step and before
\* its read
DeploymentDeletedBeforeRead ==
    /\ pc = "getDep"
    /\ apiObjects["Deployment"].exists
    /\ DeleteChild
    /\ ~apiObjects'["Deployment"].exists

NextStamp == Pass \/ DeploymentDeletedBeforeRead \/ DeploymentFlaps \/ Tick

\* the passes of a record under a clock, over a Deployment that comes and
\* goes
SpecStamp == Init /\ [][NextStamp]_vars

\* a resource of the kind that another actor has created under the name and
\* namespace of the record: no owner reference, no label of the core
ForeignObject(kind) ==
    [NoObj EXCEPT !.exists = TRUE, !.name = crName, !.namespace = crNamespace,
                  !.image = IF kind = "Deployment" THEN "image-2" ELSE ""]

\* a cluster that holds some such resources when the record is created
InitAdopt ==
    /\ apiMCPServer = [exists |-> TRUE, name |-> crName, namespace |-> crNamespace,
                       uid |-> crUID, apiVersion |-> GroupVersion, kind |-> MCPServerKind,
                       image |-> crImage, command |-> << >>, args |-> << >>,
                       conditions |-> << >>]
    /\ apiObjects \in [Kinds -> {NoObj} \cup {ForeignObject(kind) : kind \in Kinds}]
    /\ \A kind \in Kinds : apiObjects[kind] \in {NoObj, ForeignObject(kind)}
    /\ pc = "idle"
    /\ mcpServer = NoRecord
    /\ originalStatus = << >>
    /\ overallReady = NoCondition
    /\ result = NoResult
    /\ issued = << >>
    /\ queued = TRUE
    /\ timer = FALSE
    /\ now = 1
    /\ deletedInPass = FALSE
    /\ ctxCancelled = FALSE
    /\ faulty = TRUE
    /\ strays = {}
    /\ handled = NoEvent
    /\ pair = NoPair
    /\ deletedChildren = {}

\* the readiness of a child changes between passes
ReadinessChanges ==
    /\ pc = "idle"
    /\ \/ DeploymentStatusChanges
       \/ RouteStatusChanges

NextAdopt == Pass \/ ReadinessChanges

\* the passes of a record in a cluster that already holds resources of its
\* name
SpecAdopt == InitAdopt /\ [][NextAdopt]_vars

\* another actor deletes a child between passes
DeleteChildBetweenPasses ==
    /\ pc = "idle"
    /\ DeleteChild

NextHeal == Pass \/ DeleteChildBetweenPasses \/ Redeliver \/ TransportRecovers

\* requests are delivered again and again, a delivered request is started
\* and its pass runs to its return, and the transport recovers
FairHeal ==
    /\ WF_vars(Pass)
    /\ WF_vars(Redeliver)
    /\ WF_vars(TransportRecovers)

\* the passes of a record that stays, under re-delivery, over children that
\* others delete
SpecHeal == Init /\ [][NextHeal]_vars /\ FairHeal

\* the mapping of watch events alone, over every watched object
NextMap == MapEvent

SpecMap == Init /\ [][NextMap]_vars

-----------------------------------------------------------------------------
(* Reading a pass off its state *)

Last(seq) == seq[Len(seq)]

\* the record was fetched in this pass
Fetched == Len(issued) >= 1 /\ issued[1] = Req("Get", "MCPServer", Nil)

\* the pass has returned and the controller has not yet taken the result
Returned == pc = "done"

\* a request of the pass failed with a transport error
Failed(i) == issued[i].err \in ErrTexts \cup {CtxErr}

NoRequestFailed == \A i \in 1..Len(issued) : ~Failed(i)

\* the pass issued this request with this outcome
Issued(verb, kind, err) ==
    \E i \in 1..Len(issued) : issued[i] = Req(verb, kind, err)

StatusWriteIssued == \E i \in 1..Len(issued) : issued[i].verb = "Update"

ConditionType(kind) ==
    CASE kind = "Deployment" -> "DeploymentAvailable"
      [] kind = "Service" -> "ServiceAvailable"
      [] kind = "Route" -> "RouteAvailable"

Contains(message, text) == \E i \in 1..Len(message) : message[i] = text

-----------------------------------------------------------------------------
(* C2 *)

\* C2: a pass over an existing record that returns without error returns a
\* requeue delay of exactly 15 seconds when the overall condition it computed
\* is not True, and an empty result when it is True.
C2_RequeueIffNotTrue ==
    (Returned /\ Fetched /\ result.err = Nil) =>
        /\ overallReady = getOverallCondition(mcpServer.conditions)
        /\ overallReady.status # "True" => result = [RequeueAfter |-> 15, err |-> Nil]
        /\ overallReady.status = "True" => result = [RequeueAfter |-> 0, err |-> Nil]

\* a pass that found a child's read failing (Unknown) returns the requeue
C2_Witness ==
    /\ Returned /\ Fetched /\ result.err = Nil
    /\ \E i \in 1..Len(mcpServer.conditions) : mcpServer.conditions[i].status = "Unknown"
    /\ result.RequeueAfter = 15

-----------------------------------------------------------------------------
(* C3 *)

OwnedByRecord(obj) ==
    /\ obj.exists
    /\ \E i \in 1..Len(obj.ownerReferences) :
          /\ obj.ownerReferences[i].name = crName
          /\ obj.ownerReferences[i].uid = crUID

\* C3: a pass over a record without children in which no request fails (all
\* three creates answered "created") leaves one Deployment, one Service and
\* one Route of the record's name, each with an ownership link to the record,
\* and the persisted overall condition Available=False, DeploymentNotReady.
C3_ScenarioA ==
    (/\ Returned /\ Fetched /\ NoRequestFailed /\ apiMCPServer.exists
     /\ \A kind \in Kinds : Issued("Create", kind, Nil)) =>
        /\ \A kind \in Kinds : OwnedByRecord(apiObjects[kind])
        /\ HasCondition(apiMCPServer.conditions, "Available")
        /\ FindStatusCondition(apiMCPServer.conditions, "Available").status = "False"
        /\ FindStatusCondition(apiMCPServer.conditions, "Available").reason = "DeploymentNotReady"
        /\ Cardinality({i \in 1..Len(issued) : issued[i].verb = "Create"}) = 3

\* the first pass over a new record has created the three children
C3_Witness ==
    /\ Returned /\ Fetched /\ NoRequestFailed /\ apiMCPServer.exists
    /\ \A kind \in Kinds : Issued("Create", kind, Nil)
    /\ Issued("Update", "MCPServer", Nil)
    /\ originalStatus = << >>

-----------------------------------------------------------------------------
(* C5 *)

\* the condition a failed read of a child leaves in the pass's record
GetFailedRecorded(kind, err) ==
    LET c == FindStatusCondition(mcpServer.conditions, ConditionType(kind))
    IN /\ HasCondition(mcpServer.conditions, ConditionType(kind))
       /\ c.status = "Unknown"
       /\ c.reason = CASE kind = "Deployment" -> "DeploymentGetFailed"
                       [] kind = "Service" -> "ServiceGetFailed"
                       [] kind = "Route" -> "RouteGetFailed"
       /\ Contains(c.message, err)

\* C5 as stated: a pass in which the read of a child failed with another
\* error than not-found records Unknown, <Kind>GetFailed with the error text,
\* computes an overall condition that is not True, and returns no error and a
\* 15-second requeue.
C5_Original ==
    Returned =>
        \A i \in 1..Len(issued) :
            (issued[i].verb = "Get" /\ issued[i].kind \in Kinds /\ Failed(i)) =>
                /\ GetFailedRecorded(issued[i].kind, issued[i].err)
                /\ overallReady.status # "True"
                /\ result = [RequeueAfter |-> 15, err |-> Nil]

\* C5, amended: as C5_Original, but the pass returns no error and the
\* 15-second requeue unless its status write fails, and then it returns the
\* error of the write and no requeue.
C5_GetFailedIsNotFatal ==
    Returned =>
        \A i \in 1..Len(issued) :
            (issued[i].verb = "Get" /\ issued[i].kind \in Kinds /\ Failed(i)) =>
                /\ GetFailedRecorded(issued[i].kind, issued[i].err)
                /\ overallReady.status # "True"
                /\ IF Last(issued).verb = "Update" /\ Last(issued).err # Nil
                   THEN result = [RequeueAfter |-> 0, err |-> Last(issued).err]
                   ELSE result = [RequeueAfter |-> 15, err |-> Nil]

\* the read of the Service failed, the status was written, the pass requeues
C5_Witness ==
    /\ Returned
    /\ Issued("Get", "Service", "timeout")
    /\ Issued("Update", "MCPServer", Nil)
    /\ result = [RequeueAfter |-> 15, err |-> Nil]

-----------------------------------------------------------------------------
(* C6 *)

\* C6: a create that fails with another error than already-exists is the last
\* request of its pass: no later child is created, no condition is evaluated,
\* no status write is issued and the persisted status stays as fetched, and
\* Reconcile returns that error without a requeue delay.
C6_CreateFailureAborts ==
    \A i \in 1..Len(issued) :
        (issued[i].verb = "Create" /\ Failed(i)) =>
            /\ i = Len(issued)
            /\ Returned
            /\ result = [RequeueAfter |-> 0, err |-> issued[i].err]
            /\ mcpServer.conditions = originalStatus
            /\ ~StatusWriteIssued
            /\ apiMCPServer.exists => apiMCPServer.conditions = originalStatus

\* the create of the Service failed after the Deployment was created
C6_Witness ==
    /\ Returned
    /\ Issued("Create", "Deployment", Nil)
    /\ Last(issued) = Req("Create", "Service", "timeout")
    /\ ~apiObjects["Route"].exists

-----------------------------------------------------------------------------
(* C7 *)

\* C7: when the fetch of the record answers not-found, Reconcile returns no
\* error and no requeue; when it fails with another error, Reconcile returns
\* that error; in both cases the fetch is the only request of the pass.
C7_FetchFailure ==
    (Len(issued) >= 1 /\ issued[1].err # Nil) =>
        /\ Returned
        /\ Len(issued) = 1
        /\ issued[1].verb = "Get" /\ issued[1].kind = "MCPServer"
        /\ issued[1].err = NotFound => result = [RequeueAfter |-> 0, err |-> Nil]
        /\ issued[1].err # NotFound => result = [RequeueAfter |-> 0, err |-> issued[1].err]

\* the pass for the delete event of the record finds it gone
C7_Witness ==
    /\ Returned
    /\ issued = <<Req("Get", "MCPServer", NotFound)>>
    /\ result = NoResult
    /\ ~apiMCPServer.exists

-----------------------------------------------------------------------------
(* C8 *)

\* C8: when the status write of a pass fails, Reconcile returns the error of
\* the write without a requeue delay, and the persisted conditions of the
\* record are the ones the pass fetched.
C8_StatusWriteFailure ==
    \A i \in 1..Len(issued) :
        (issued[i].verb = "Update" /\ issued[i].err # Nil) =>
            /\ i = Len(issued)
            /\ Returned
            /\ result = [RequeueAfter |-> 0, err |-> issued[i].err]
            /\ mcpServer.conditions # originalStatus
            /\ apiMCPServer.exists => apiMCPServer.conditions = originalStatus

\* the write of a changed status failed and the record still has no status
C8_Witness ==
    /\ Returned
    /\ Last(issued) = Req("Update", "MCPServer", "timeout")
    /\ Len(mcpServer.conditions) = 4
    /\ apiMCPServer.exists
    /\ apiMCPServer.conditions = << >>

-----------------------------------------------------------------------------
(* C9 *)

\* C9 as stated: a pass during which the record is deleted, after the fetch
\* and before the status is persisted, returns an error of the status write
\* (read here for the passes in which no create and no read fails).
C9_Original ==
    (/\ Returned /\ deletedInPass
     /\ \A i \in 1..Len(issued) : issued[i].verb # "Update" => ~Failed(i)) =>
        /\ Last(issued).verb = "Update"
        /\ result.err # Nil

\* C9, amended: when the record is deleted after the fetch and before the
\* status is persisted, nothing the pass computed is persisted, and if the
\* pass issues its status write, the write fails and Reconcile returns its
\* error; a pass whose merged status equals its snapshot issues no write and
\* returns without error, and a pass whose create fails returns that error.
C9_DeletedBeforePersist ==
    deletedInPass =>
        /\ ~apiMCPServer.exists
        /\ apiMCPServer.conditions = << >>
        /\ ~Issued("Update", "MCPServer", Nil)
        /\ StatusWriteIssued =>
              /\ Returned
              /\ Last(issued).verb = "Update"
              /\ Last(issued).err # Nil
              /\ result = [RequeueAfter |-> 0, err |-> Last(issued).err]
        /\ (Returned /\ ~StatusWriteIssued /\ NoRequestFailed) =>
              /\ result.err = Nil
              /\ mcpServer.conditions = originalStatus

\* the record vanished during the pass and the status write answered not-found
C9_Witness ==
    /\ Returned /\ deletedInPass
    /\ Last(issued) = Req("Update", "MCPServer", NotFound)
    /\ result = [RequeueAfter |-> 0, err |-> NotFound]

-----------------------------------------------------------------------------
(* C10 *)

CreatePos(kind) ==
    CASE kind = "Deployment" -> "dep"
      [] kind = "Service" -> "svc"
      [] kind = "Route" -> "route"

AfterCreatePos(kind) ==
    CASE kind = "Deployment" -> "svc"
      [] kind = "Service" -> "route"
      [] kind = "Route" -> "getDep"

\* C10: a call of reconcileMCPServer<Kind> whose create the API server
\* answers (created or already-exists) returns nil; when a resource of the
\* kind and name exists the call changes no object of the cluster, and
\* otherwise it creates the object owned by the record: so a second call in a
\* row returns nil and leaves the resource of the first as it is.
C10_ReconcileIdempotent ==
    [][\A kind \in Kinds :
          (/\ pc = CreatePos(kind)
           /\ pc' # pc
           /\ Last(issued').err \notin ErrTexts \cup {CtxErr}) =>
              /\ pc' = AfterCreatePos(kind)
              /\ result' = result
              /\ apiObjects[kind].exists => apiObjects' = apiObjects
              /\ ~apiObjects[kind].exists =>
                    apiObjects' = [apiObjects EXCEPT ![kind] = DesiredObject(kind, mcpServer)]
      ]_vars

\* a later pass found the Deployment of an earlier pass, by then Available,
\* and went on to the Service
C10_Witness ==
    /\ pc = "svc"
    /\ Last(issued) = Req("Create", "Deployment", AlreadyExists)
    /\ OwnedByRecord(apiObjects["Deployment"])
    /\ apiObjects["Deployment"].available = "True"

-----------------------------------------------------------------------------
(* C1 *)

IsTrue(conds, type) ==
    \E i \in 1..Len(conds) : conds[i].type = type /\ conds[i].status = "True"

\* C1: getOverallCondition returns Available=True, AllComponentsReady exactly
\* when DeploymentAvailable, ServiceAvailable and RouteAvailable are all
\* present with status True, and otherwise Available=False with the reason of
\* the first of Deployment, Service, Route whose condition is absent or not
\* True.
C1_AggregatorPrecedence ==
    pc = "aggregated" =>
        LET conds == mcpServer.conditions
            d == IsTrue(conds, "DeploymentAvailable")
            sv == IsTrue(conds, "ServiceAvailable")
            r == IsTrue(conds, "RouteAvailable")
        IN /\ overallReady.type = "Available"
           /\ overallReady.status \in {"True", "False"}
           /\ overallReady.status = "True" <=> (d /\ sv /\ r)
           /\ overallReady.reason = "AllComponentsReady" <=> (d /\ sv /\ r)
           /\ ~d => overallReady.reason = "DeploymentNotReady"
           /\ (d /\ ~sv) => overallReady.reason = "ServiceNotReady"
           /\ (d /\ sv /\ ~r) => overallReady.reason = "RouteNotReady"

\* Deployment True, Service Unknown, Route absent: the Service is reported
C1_Witness ==
    /\ pc = "aggregated"
    /\ IsTrue(mcpServer.conditions, "DeploymentAvailable")
    /\ \E i \in 1..Len(mcpServer.conditions) :
          /\ mcpServer.conditions[i].type = "ServiceAvailable"
          /\ mcpServer.conditions[i].status = "Unknown"
    /\ ~HasCondition(mcpServer.conditions, "RouteAvailable")
    /\ overallReady.status = "False"
    /\ overallReady.reason = "ServiceNotReady"

-----------------------------------------------------------------------------
(* C4 *)

PersistedAvailableTrue ==
    /\ apiMCPServer.exists
    /\ IsTrue(apiMCPServer.conditions, "Available")

\* C4: for a created record whose Deployment eventually reports Available and
\* whose Route eventually reports an admitted ingress, both for good, with
\* the steps of the passes and the requeue delay eventually taken and the
\* requests eventually not failing any more, the persisted Available
\* condition eventually becomes True.
C4_EventuallyAvailable == <>PersistedAvailableTrue

\* a pass has persisted Available=True over children it created
C4_Witness ==
    /\ PersistedAvailableTrue
    /\ \A kind \in Kinds : OwnedByRecord(apiObjects[kind])
    /\ pc = "idle"

-----------------------------------------------------------------------------
(* C11 *)

\* the Deployment was built from an image the record no longer has
StaleDeployment ==
    /\ apiMCPServer.exists
    /\ apiObjects["Deployment"].exists
    /\ apiObjects["Deployment"].image # apiMCPServer.image

\* C11: the requests of a pass that concern a Deployment, Service or Route
\* are creates and reads only, and no step of a pass changes or removes a
\* child that exists: a Deployment built from an earlier image of the record
\* stays as it is (the children change by the hand of others only).
C11_ChildrenNeverMutated ==
    [][/\ \A i \in 1..Len(issued') :
            issued'[i].kind \in Kinds => issued'[i].verb \in {"Create", "Get"}
       /\ Pass =>
            \A kind \in Kinds :
                apiObjects[kind].exists => apiObjects'[kind] = apiObjects[kind]
      ]_vars

\* a pass over the edited record found the stale Deployment, went through
\* and returned, and the Deployment still runs the earlier image
C11_Witness ==
    /\ Returned
    /\ StaleDeployment
    /\ mcpServer.image = apiMCPServer.image
    /\ Issued("Create", "Deployment", AlreadyExists)
    /\ Issued("Get", "Deployment", Nil)

-----------------------------------------------------------------------------
(* C12 *)

\* the children of the kind the API server holds for the record
ChildrenOf(kind) ==
    (IF OwnedByRecord(apiObjects[kind]) THEN {apiObjects[kind]} ELSE {})
    \cup {s.obj : s \in {t \in strays : t.kind = kind /\ OwnedByRecord(t.obj)}}

\* C12: whatever passes and re-deliveries have run, the API server holds at
\* most one Deployment, at most one Service and at most one Route for the
\* record.
C12_AtMostOneChild ==
    \A kind \in Kinds : Cardinality(ChildrenOf(kind)) <= 1

\* a pass re-delivered after an edit of the record found all three children
\* in place and created none
C12_Witness ==
    /\ Returned
    /\ mcpServer.image # crImage
    /\ \A kind \in Kinds :
          /\ Issued("Create", kind, AlreadyExists)
          /\ ChildrenOf(kind) = {apiObjects[kind]}

-----------------------------------------------------------------------------
(* C13 *)

\* the pass has merged the four conditions into its record
Merged == Issued("Get", "Route", Nil) \/ Issued("Get", "Route", NotFound)
          \/ \E e \in ErrTexts \cup {CtxErr} : Issued("Get", "Route", e)

\* C13: a pass issues a status write exactly when the status of its record,
\* after the four conditions are merged, differs from the snapshot taken
\* after the fetch; a pass that stops before the merge issues none.
C13_WriteIffChanged ==
    /\ pc = "update" => (Merged /\ mcpServer.conditions # originalStatus)
    /\ StatusWriteIssued => (Merged /\ mcpServer.conditions # originalStatus)
    /\ (Returned /\ Merged /\ mcpServer.conditions # originalStatus) => StatusWriteIssued
    /\ (Returned /\ ~Merged) => mcpServer.conditions = originalStatus

\* a pass over a record whose persisted conditions are the ones it computes
\* has returned without a status write
C13_Witness ==
    /\ Returned /\ Merged
    /\ Len(originalStatus) = 4
    /\ mcpServer.conditions = originalStatus
    /\ ~StatusWriteIssued
    /\ apiMCPServer.conditions = originalStatus

-----------------------------------------------------------------------------
(* C14 *)

\* the two conditions agree in all but the timestamp
SameButTime(c, d) ==
    /\ c.type = d.type
    /\ c.status = d.status
    /\ c.reason = d.reason
    /\ c.message = d.message

\* every condition of conds has its like, in all but the timestamp, in others
SameButTimes(conds, others) ==
    /\ Len(conds) = Len(others)
    /\ \A i \in 1..Len(conds) :
          /\ HasCondition(others, conds[i].type)
          /\ SameButTime(conds[i], FindStatusCondition(others, conds[i].type))

\* C14: a merge of a condition whose status, reason and message are the
\* stored ones of its type leaves the stored transition timestamp as it is,
\* and so a pass that computes the conditions it fetched ends with every
\* timestamp as fetched, in its record and in the persisted one.
C14_TimestampKept ==
    [][/\ \A i \in 1..Len(mcpServer.conditions) :
            (/\ HasCondition(mcpServer'.conditions, mcpServer.conditions[i].type)
             /\ SameButTime(mcpServer.conditions[i],
                    FindStatusCondition(mcpServer'.conditions, mcpServer.conditions[i].type)))
            => FindStatusCondition(mcpServer'.conditions,
                   mcpServer.conditions[i].type).lastTransitionTime
               = mcpServer.conditions[i].lastTransitionTime
       /\ (pc' = "done" /\ Merged' /\ SameButTimes(mcpServer'.conditions, originalStatus')) =>
            /\ mcpServer'.conditions = originalStatus'
            /\ apiMCPServer'.exists => apiMCPServer'.conditions = originalStatus'
      ]_vars

\* a later pass, run after the clock has advanced, over an unchanged
\* cluster: the conditions keep the timestamps of the earlier pass
C14_Witness ==
    /\ Returned /\ Merged
    /\ now = 2
    /\ Len(originalStatus) = 4
    /\ \A i \in 1..4 : originalStatus[i].lastTransitionTime = 1
    /\ mcpServer.conditions = originalStatus
    /\ apiMCPServer.conditions = originalStatus

-----------------------------------------------------------------------------
(* C15 *)

\* no two entries of the condition set have the same type
OnePerType(conds) ==
    \A i \in 1..Len(conds) : \A j \in 1..Len(conds) :
        conds[i].type = conds[j].type => i = j

\* C15: the condition set of the record, in the pass's copy, in its snapshot
\* and as persisted, holds at most one entry per condition type, whatever
\* number of passes has merged the four conditions into it.
C15_OnePerType ==
    /\ OnePerType(mcpServer.conditions)
    /\ OnePerType(originalStatus)
    /\ OnePerType(apiMCPServer.conditions)

\* a later pass has merged four conditions into the four it fetched, one of
\* them with another status, and persisted the set
C15_Witness ==
    /\ Returned
    /\ Len(originalStatus) = 4
    /\ Len(mcpServer.conditions) = 4
    /\ \E i \in 1..4 : mcpServer.conditions[i].status # originalStatus[i].status
    /\ Issued("Update", "MCPServer", Nil)
    /\ apiMCPServer.conditions = mcpServer.conditions

-----------------------------------------------------------------------------
(* C16 *)

\* the reason the aggregation of the three child conditions of conds carries
AggregatedReason(conds) ==
    IF ~IsTrue(conds, "DeploymentAvailable") THEN "DeploymentNotReady"
    ELSE IF ~IsTrue(conds, "ServiceAvailable") THEN "ServiceNotReady"
    ELSE IF ~IsTrue(conds, "RouteAvailable") THEN "RouteNotReady"
    ELSE "AllComponentsReady"

\* C16: whenever the record has a persisted status, it holds the three child
\* conditions and the Available condition together, and Available is their
\* aggregation: True exactly when all three are True, and otherwise False
\* with the reason of the first of Deployment, Service, Route not True.
C16_PersistedOverallIsAggregate ==
    apiMCPServer.conditions # << >> =>
        LET conds == apiMCPServer.conditions
            overall == FindStatusCondition(conds, "Available")
        IN /\ \A type \in {"DeploymentAvailable", "ServiceAvailable",
                            "RouteAvailable", "Available"} : HasCondition(conds, type)
           /\ overall.reason = AggregatedReason(conds)
           /\ overall.status =
                 (IF AggregatedReason(conds) = "AllComponentsReady" THEN "True" ELSE "False")

\* the persisted status says the Route is what is missing
C16_Witness ==
    /\ pc = "idle"
    /\ apiMCPServer.exists
    /\ IsTrue(apiMCPServer.conditions, "DeploymentAvailable")
    /\ IsTrue(apiMCPServer.conditions, "ServiceAvailable")
    /\ HasCondition(apiMCPServer.conditions, "RouteAvailable")
    /\ FindStatusCondition(apiMCPServer.conditions, "RouteAvailable").reason = "RouteNotAdmitted"
    /\ FindStatusCondition(apiMCPServer.conditions, "Available").reason = "RouteNotReady"

-----------------------------------------------------------------------------
(* C17 *)

\* the pass has read the child of the kind, with outcome err
Read(kind, err) == Issued("Get", kind, err)

\* the condition of the type in the pass's record has this status and reason
Reports(type, status, reason) ==
    /\ HasCondition(mcpServer.conditions, type)
    /\ FindStatusCondition(mcpServer.conditions, type).status = status
    /\ FindStatusCondition(mcpServer.conditions, type).reason = reason

\* C17: getDeploymentCondition returns a DeploymentAvailable condition:
\* False, DeploymentNotFound when the read answers not-found; Unknown,
\* DeploymentGetFailed on any other read error; False, DeploymentNotReady for
\* a Deployment without an Available sub-condition or with one not True;
\* True, DeploymentReady for a Deployment with Available True.
C17_DeploymentCondition ==
    LET dep == apiObjects["Deployment"]
    IN /\ Read("Deployment", NotFound) =>
            Reports("DeploymentAvailable", "False", "DeploymentNotFound")
       /\ \A e \in ErrTexts \cup {CtxErr} :
            Read("Deployment", e) =>
                Reports("DeploymentAvailable", "Unknown", "DeploymentGetFailed")
       /\ (Read("Deployment", Nil) /\ dep.available # "True") =>
            Reports("DeploymentAvailable", "False", "DeploymentNotReady")
       /\ (Read("Deployment", Nil) /\ dep.available = "True") =>
            Reports("DeploymentAvailable", "True", "DeploymentReady")

\* a Deployment read with empty status is reported not ready
C17_Witness ==
    /\ Read("Deployment", Nil)
    /\ apiObjects["Deployment"].available = "Absent"
    /\ Reports("DeploymentAvailable", "False", "DeploymentNotReady")

-----------------------------------------------------------------------------
(* C18 *)

\* C18: getRouteCondition returns a RouteAvailable condition: False,
\* RouteNotFound when the read answers not-found; Unknown, RouteGetFailed on
\* any other read error; True, RouteReady for a Route with at least one
\* ingress entry whose Admitted sub-condition is True; False,
\* RouteNotAdmitted for a Route with no ingress entry or none admitted.
C18_RouteCondition ==
    LET ingress == apiObjects["Route"].ingress
        admitted == \E i \in 1..Len(ingress) : ingress[i] = "True"
    IN /\ Read("Route", NotFound) =>
            Reports("RouteAvailable", "False", "RouteNotFound")
       /\ \A e \in ErrTexts \cup {CtxErr} :
            Read("Route", e) => Reports("RouteAvailable", "Unknown", "RouteGetFailed")
       /\ (Read("Route", Nil) /\ admitted) =>
            Reports("RouteAvailable", "True", "RouteReady")
       /\ (Read("Route", Nil) /\ ~admitted) =>
            Reports("RouteAvailable", "False", "RouteNotAdmitted")

\* a Route admitted by its second ingress entry only is reported ready
C18_Witness ==
    /\ Read("Route", Nil)
    /\ apiObjects["Route"].ingress = <<"None", "True">>
    /\ Reports("RouteAvailable", "True", "RouteReady")

-----------------------------------------------------------------------------
(* C19 *)

\* C19: getServiceCondition returns a ServiceAvailable condition: False,
\* ServiceNotFound when the read answers not-found; Unknown,
\* ServiceGetFailed on any other read error; True, ServiceReady for any
\* Service found.
C19_ServiceCondition ==
    /\ Read("Service", NotFound) =>
          Reports("ServiceAvailable", "False", "ServiceNotFound")
    /\ \A e \in ErrTexts \cup {CtxErr} :
          Read("Service", e) => Reports("ServiceAvailable", "Unknown", "ServiceGetFailed")
    /\ Read("Service", Nil) => Reports("ServiceAvailable", "True", "ServiceReady")

\* a Service of the record's name that somebody else made is reported ready
C19_Witness ==
    /\ Read("Service", Nil)
    /\ apiObjects["Service"].ownerReferences = NoOwner
    /\ Reports("ServiceAvailable", "True", "ServiceReady")

-----------------------------------------------------------------------------
(* C20 *)

\* the value of the record when it sets one, else the default
OrDefault(value, default) == IF value # << >> THEN value ELSE default

\* C20: the Deployment a pass creates runs its container with the command of
\* the record when the record sets one and with the default command when it
\* does not, and likewise with the args of the record or the default args.
C20_CommandAndArgs ==
    Issued("Create", "Deployment", Nil) =>
        /\ apiObjects["Deployment"].command
              = OrDefault(mcpServer.command, DefaultMCPDeploymentCommand)
        /\ apiObjects["Deployment"].args
              = OrDefault(mcpServer.args, DefaultMCPDeploymentArgs)

-----------------------------------------------------------------------------
(* C21 *)

\* what the cluster holds of the three children
DeploymentReady == apiObjects["Deployment"].exists /\ apiObjects["Deployment"].available = "True"
ServiceExists == apiObjects["Service"].exists
RouteHasAdmittedIngress ==
    /\ apiObjects["Route"].exists
    /\ \E i \in 1..Len(apiObjects["Route"].ingress) : apiObjects["Route"].ingress[i] = "True"

\* the pass went through its evaluation, none of its requests failed, and the
\* record is still there
CleanPass ==
    /\ Returned /\ Fetched /\ Merged /\ NoRequestFailed
    /\ apiMCPServer.exists /\ ~deletedInPass

\* C21: a pass without failed request over a Deployment that reports
\* Available=True, a Service that exists and a Route with an admitted
\* ingress leaves the four conditions persisted with status True, the
\* overall reason AllComponentsReady, and returns without requeue.
C21_ScenarioB ==
    (CleanPass /\ DeploymentReady /\ ServiceExists /\ RouteHasAdmittedIngress) =>
        /\ \A type \in {"DeploymentAvailable", "ServiceAvailable",
                         "RouteAvailable", "Available"} :
              IsTrue(apiMCPServer.conditions, type)
        /\ FindStatusCondition(apiMCPServer.conditions, "Available").reason
              = "AllComponentsReady"
        /\ result = [RequeueAfter |-> 0, err |-> Nil]

\* the pass that finds the children ready for the first time writes the
\* status and is done
C21_Witness ==
    /\ CleanPass /\ DeploymentReady /\ ServiceExists /\ RouteHasAdmittedIngress
    /\ Issued("Update", "MCPServer", Nil)
    /\ ~IsTrue(originalStatus, "Available")
    /\ IsTrue(apiMCPServer.conditions, "Available")
    /\ result = NoResult

-----------------------------------------------------------------------------
(* C22 *)

RouteWithoutIngress == apiObjects["Route"].exists /\ apiObjects["Route"].ingress = << >>

\* the pass read the three children and each read was answered
ReadsAnswered == \A kind \in Kinds : Read(kind, Nil)

AllAnswered == \A i \in 1..Len(issued) : issued[i].err \in {Nil, AlreadyExists}

-----------------------------------------------------------------------------
(* C23 *)

\* the position of the request in the pass, 0 when it was not issued
Position(verb, kind) ==
    IF \E i \in 1..Len(issued) : issued[i].verb = verb /\ issued[i].kind = kind
    THEN CHOOSE i \in 1..Len(issued) : issued[i].verb = verb /\ issued[i].kind = kind
    ELSE 0

\* the create of the kind was issued before position i and was answered
\* with created or already-exists
CreatedBefore(kind, i) ==
    /\ 0 < Position("Create", kind)
    /\ Position("Create", kind) < i
    /\ issued[Position("Create", kind)].err \in {Nil, AlreadyExists}

\* C23: in every pass the creates are issued in the order Deployment,
\* Service, Route, each at most once: the create of the Service after the
\* create of the Deployment succeeded or answered already-exists, the create
\* of the Route after the same of the Service, and every read of a child
\* after the same of all three.
C23_CreateOrder ==
    \A i \in 1..Len(issued) :
        /\ issued[i].verb = "Create" => Position("Create", issued[i].kind) = i
        /\ (issued[i].verb = "Create" /\ issued[i].kind = "Service") =>
              CreatedBefore("Deployment", i)
        /\ (issued[i].verb = "Create" /\ issued[i].kind = "Route") =>
              CreatedBefore("Service", i)
        /\ (issued[i].verb = "Get" /\ issued[i].kind \in Kinds) =>
              \A kind \in Kinds : CreatedBefore(kind, i)

\* a pass found the Deployment in place, created the Service and the Route,
\* and has read the Deployment
C23_Witness ==
    /\ pc = "getSvc"
    /\ issued = <<Req("Get", "MCPServer", Nil),
                  Req("Create", "Deployment", AlreadyExists),
                  Req("Create", "Service", Nil),
                  Req("Create", "Route", Nil),
                  Req("Get", "Deployment", Nil)>>

-----------------------------------------------------------------------------
(* C24 *)

\* C24: once the invocation context is cancelled during a pass, the pass
\* attempts no status write afterwards: no status write is issued after a
\* request of the same pass has failed because of cancellation.
C24_NoWriteAfterCancel ==
    \A i \in 1..Len(issued) : \A j \in 1..Len(issued) :
        (i < j /\ issued[i].err = CtxErr) =>
            ~(issued[j].verb = "Update" /\ issued[j].kind = "MCPServer")

-----------------------------------------------------------------------------
(* C25 *)

\* the request was made under the name and namespace of the record
UnderRecordKey(r) ==
    r.name = apiMCPServer.name /\ r.namespace = apiMCPServer.namespace

\* C25: every child the core creates for a record has exactly the name and
\* the namespace of the record, and every readiness read the core issues for
\* the record uses exactly that key, for all three kinds.
C25_ChildIdentity ==
    /\ \A i \in 1..Len(issued) :
          issued[i].kind \in Kinds => UnderRecordKey(issued[i])
    /\ \A kind \in Kinds :
          apiObjects[kind].exists => UnderRecordKey(apiObjects[kind])
    /\ strays = {}

\* a pass created the three children and read each of them
C25_Witness ==
    /\ Returned
    /\ \A kind \in Kinds : Issued("Create", kind, Nil) /\ Read(kind, Nil)

-----------------------------------------------------------------------------
(* C26 *)

\* the object carries an ownership link to the record: kind MCPServer in the
\* operator's group/version, the record's name and UID
LinkedToRecord(obj) ==
    \E i \in 1..Len(obj.ownerReferences) :
        obj.ownerReferences[i] = [apiVersion |-> GroupVersion, kind |-> MCPServerKind,
                                  name |-> apiMCPServer.name, uid |-> apiMCPServer.uid]

\* C26: every Deployment, Service and Route the core creates carries, from
\* its creation on, an ownership link that identifies the creating record
\* (kind MCPServer in the operator's group/version, its name and UID), and
\* mapResourceToMCPServer maps the child to that record through the link.
C26_OwnershipLink ==
    \A kind \in Kinds :
        apiObjects[kind].exists =>
            /\ LinkedToRecord(apiObjects[kind])
            /\ \E i \in 1..Len(apiObjects[kind].ownerReferences) :
                  /\ IsMCPServerOwner(apiObjects[kind].ownerReferences[i])
                  /\ mapResourceToMCPServer(apiObjects[kind]) =
                        <<[name |-> apiObjects[kind].ownerReferences[i].name,
                           namespace |-> apiMCPServer.namespace]>>

\* the pass has just created the three children
C26_Witness ==
    /\ pc = "getDep"
    /\ \A kind \in Kinds : Issued("Create", kind, Nil) /\ apiObjects[kind].exists

-----------------------------------------------------------------------------
(* C27 *)

\* position i holds the first owner reference of kind MCPServer in the
\* operator's group/version
FirstMCPServerOwner(obj, i) ==
    /\ obj.ownerReferences[i].kind = "MCPServer"
    /\ obj.ownerReferences[i].apiVersion = "mcpserver.opendatahub.io/v1"
    /\ \A j \in 1..(i - 1) :
          ~(/\ obj.ownerReferences[j].kind = "MCPServer"
            /\ obj.ownerReferences[j].apiVersion = "mcpserver.opendatahub.io/v1")

\* C27: mapResourceToMCPServer returns exactly one request for every watched
\* object: for an object with an owner reference of kind MCPServer in the
\* operator's group/version, the request names the first such owner in the
\* namespace of the object; for any other object, the request names the
\* object's own name and namespace.
C27_MapResource ==
    handled.obj.exists =>
        /\ Len(handled.requests) = 1
        /\ \A i \in 1..Len(handled.obj.ownerReferences) :
              FirstMCPServerOwner(handled.obj, i) =>
                  handled.requests[1] = [name |-> handled.obj.ownerReferences[i].name,
                                         namespace |-> handled.obj.namespace]
        /\ (\A i \in 1..Len(handled.obj.ownerReferences) :
                ~FirstMCPServerOwner(handled.obj, i)) =>
                  handled.requests[1] = [name |-> handled.obj.name,
                                         namespace |-> handled.obj.namespace]

\* an object whose second owner reference is the first that names an
\* MCPServer, of another name than the object's, has been mapped
C27_Witness ==
    /\ handled.obj.exists
    /\ Len(handled.obj.ownerReferences) = 2
    /\ handled.obj.ownerReferences[1].kind = "ReplicaSet"
    /\ FirstMCPServerOwner(handled.obj, 2)
    /\ handled.obj.ownerReferences[2].name # handled.obj.name
    /\ handled.obj.ownerReferences[1].name = handled.obj.name
    /\ handled.requests = <<[name |-> handled.obj.ownerReferences[2].name,
                             namespace |-> handled.obj.namespace]>>

-----------------------------------------------------------------------------
(* C28 *)

\* a pass has ended in Done: Available=True persisted, nothing queued, no
\* requeue pending
Done ==
    /\ pc = "idle"
    /\ ~queued
    /\ ~timer
    /\ PersistedAvailableTrue

\* a child is not ready: the Deployment is not Available, the Route has no
\* admitted ingress, or a child is gone
ChildNotReady == ~(DeploymentReady /\ ServiceExists /\ RouteHasAdmittedIngress)

\* C28: after a pass has ended in Done, when a child stops being ready (the
\* Deployment stops being Available, the Route loses admission, or a child
\* is deleted), a new pass for the record is eventually started and the
\* persisted Available condition eventually stops being True, unless the
\* children are ready again.
C28_ContinuousVerdict ==
    /\ (Done /\ ChildNotReady) ~> (pc = "fetch")
    /\ (Done /\ ChildNotReady) ~> (~PersistedAvailableTrue \/ ~ChildNotReady)

-----------------------------------------------------------------------------
(* C29 *)

\* the object has a port of that name (a container port or a Service port)
HasPortNamed(ports, name) == \E i \in 1..Len(ports) : ports[i].name = name

\* C29: the three specs derived from one record are mutually consistent and
\* of the fixed shape: the container exposes port 8000 named "http"; the
\* Service has a port named "http" whose target is the container port named
\* "http" and its selector equals the pod labels of the Deployment; the Route
\* has path "/sse", its backend is the Service of the record's name, and its
\* target port is the name of a port the Service defines ("http").
C29_FixedShape ==
    (\A kind \in Kinds : apiObjects[kind].exists) =>
        LET dep == apiObjects["Deployment"].spec
            svc == apiObjects["Service"].spec
            route == apiObjects["Route"].spec
        IN /\ dep.containerPorts = <<[name |-> "http", containerPort |-> 8000]>>
           /\ \E i \in 1..Len(svc.ports) :
                 /\ svc.ports[i].name = "http"
                 /\ svc.ports[i].targetPort.type = "String"
                 /\ svc.ports[i].targetPort.strVal = "http"
                 /\ HasPortNamed(dep.containerPorts, svc.ports[i].targetPort.strVal)
           /\ svc.selector = dep.podLabels
           /\ route.path = "/sse"
           /\ route.to = [kind |-> "Service", name |-> apiObjects["Service"].name]
           /\ route.to.name = apiMCPServer.name
           /\ route.targetPort.type = "String"
           /\ route.targetPort.strVal = "http"
           /\ HasPortNamed(svc.ports, route.targetPort.strVal)

-----------------------------------------------------------------------------
(* C30 *)

\* what the passes leave behind: the children in the cluster and the status
\* of each record
Outcome(w) == [store |-> w.store,
               status |-> [id \in RecordIds |-> w.records[id].conditions]]

BothReturned == \A id \in RecordIds : pair.world.passes[id].pc = "done"

\* every request of the pass for the record carries the record's identity
OnlyOwnIdentity(w, id) ==
    \A i \in 1..Len(w.passes[id].issued) :
        /\ w.passes[id].issued[i].name = w.records[id].name
        /\ w.passes[id].issued[i].namespace = w.records[id].namespace

\* C30: two passes for records of different (name, namespace) may interleave
\* in any order without affecting each other: each pass creates, reads and
\* writes only resources of its record's identity, and once both have
\* returned the cluster and the status of each record are those of running
\* the two passes one after the other, in either order.
C30_PassesCommute ==
    /\ \A id \in RecordIds : OnlyOwnIdentity(pair.world, id)
    /\ BothReturned =>
          /\ Outcome(pair.world) = Outcome(RunPass(RunPass(pair.start, "a"), "b"))
          /\ Outcome(pair.world) = Outcome(RunPass(RunPass(pair.start, "b"), "a"))

\* the two passes have run overlapped, each has created children and has
\* written its record's status
C30_Witness ==
    /\ pair.overlapped
    /\ BothReturned
    /\ \A id \in RecordIds :
          /\ \E i \in 1..Len(pair.world.passes[id].issued) :
                /\ pair.world.passes[id].issued[i].verb = "Create"
                /\ pair.world.passes[id].issued[i].err = Nil
          /\ Last(pair.world.passes[id].issued).verb = "Update"
          /\ pair.world.records[id].conditions # << >>

-----------------------------------------------------------------------------
(* C31 *)

\* the status writes the pass has issued
StatusWrites(log) ==
    {i \in 1..Len(log) : log[i].verb = "Update" /\ log[i].kind = "MCPServer"}

\* C31: the only change a pass makes to the record is one whole-status
\* write: no step of a pass changes the record's spec or metadata, a pass
\* issues at most one status write, and the write carries the four
\* conditions computed in the pass together.
C31_OneWholeStatusWrite ==
    [][Pass =>
        /\ Cardinality(StatusWrites(issued')) <= 1
        /\ \A i \in StatusWrites(issued') : i = Len(issued')
        /\ apiMCPServer' # apiMCPServer =>
              /\ apiMCPServer' = [apiMCPServer EXCEPT !.conditions = mcpServer.conditions]
              /\ Last(issued') = Req("Update", "MCPServer", Nil)
              /\ \A type \in {DeploymentAvailable, ServiceAvailable,
                               RouteAvailable, OverallAvailable} :
                    /\ HasCondition(apiMCPServer'.conditions, type)
                    /\ FindStatusCondition(apiMCPServer'.conditions, type) =
                          FindStatusCondition(mcpServer.conditions, type)
              /\ FindStatusCondition(apiMCPServer'.conditions, OverallAvailable).reason =
                    overallReady.reason
      ]_vars

\* a later pass has replaced a persisted status by the four conditions it
\* computed
C31_Witness ==
    /\ Returned
    /\ Issued("Update", "MCPServer", Nil)
    /\ Len(originalStatus) = 4
    /\ apiMCPServer.conditions = mcpServer.conditions
    /\ apiMCPServer.conditions # originalStatus
    /\ Len(apiMCPServer.conditions) = 4

-----------------------------------------------------------------------------
(* C32 *)

\* the object without what the cluster reports on it
AsBuilt(obj) == [obj EXCEPT !.available = "Absent", !.ingress = << >>]

-----------------------------------------------------------------------------
(* C33 *)

\* the three creates of the pass succeeded or reported already-exists
ThreeCreatesAnswered ==
    \A kind \in Kinds :
        Issued("Create", kind, Nil) \/ Issued("Create", kind, AlreadyExists)

\* the pass has read the child of the kind, whatever the answer
WasRead(kind) ==
    \E i \in 1..Len(issued) : issued[i].verb = "Get" /\ issued[i].kind = kind

\* C33: in every pass whose three creates succeed or report already-exists
\* the three evaluators all run, whatever each of them finds, and after
\* every such pass that returns without error the persisted conditions of
\* the record hold the four types DeploymentAvailable, ServiceAvailable,
\* RouteAvailable and Available.
C33_AllEvaluatorsRun ==
    /\ (ThreeCreatesAnswered /\ pc \in {"update", "done"}) =>
          \A kind \in Kinds : WasRead(kind)
    /\ (ThreeCreatesAnswered /\ Returned /\ result.err = Nil /\ apiMCPServer.exists) =>
          \A type \in {DeploymentAvailable, ServiceAvailable,
                       RouteAvailable, OverallAvailable} :
              HasCondition(apiMCPServer.conditions, type)

\* a pass found the Deployment not ready, read the Service and the Route
\* all the same, and wrote the four conditions
C33_Witness ==
    /\ Returned
    /\ result.err = Nil
    /\ ThreeCreatesAnswered
    /\ Issued("Update", "MCPServer", Nil)
    /\ FindStatusCondition(apiMCPServer.conditions, DeploymentAvailable).status = "False"
    /\ FindStatusCondition(apiMCPServer.conditions, ServiceAvailable).status = "True"
    /\ FindStatusCondition(apiMCPServer.conditions, RouteAvailable).status = "True"
    /\ FindStatusCondition(apiMCPServer.conditions, OverallAvailable).status = "False"

-----------------------------------------------------------------------------
(* C34 *)

\* the kinds whose object under the record's key differs between two
\* states of the cluster
ChangedKinds(before, after) == {kind \in Kinds : after[kind] # before[kind]}

\* the creates of the pass that the API server carried out
Created(log) == {i \in 1..Len(log) : log[i].verb = "Create" /\ log[i].err = Nil}

\* C34: a call of a child reconcile function changes the cluster by at most
\* one created object when no resource of that kind and name exists, and by
\* nothing when one exists; a pass creates at most three objects, and a
\* step of a pass over three existing children creates none.
C34_AtMostOneCreatePerCall ==
    [][Pass =>
        /\ Cardinality(ChangedKinds(apiObjects, apiObjects')) <= 1
        /\ \A kind \in ChangedKinds(apiObjects, apiObjects') :
              /\ ~apiObjects[kind].exists
              /\ apiObjects'[kind].exists
              /\ Last(issued') = Req("Create", kind, Nil)
        /\ strays' = strays
        /\ Cardinality(Created(issued')) <= 3
        /\ (\A kind \in Kinds : apiObjects[kind].exists) =>
              /\ apiObjects' = apiObjects
              /\ Created(issued') \subseteq Created(issued)
      ]_vars

\* a pass found the Deployment and the Route in place and created the
\* Service alone
C34_Witness ==
    /\ Returned
    /\ Issued("Create", "Deployment", AlreadyExists)
    /\ Issued("Create", "Service", Nil)
    /\ Issued("Create", "Route", AlreadyExists)
    /\ apiObjects["Deployment"].available = "True"
    /\ \A kind \in Kinds : apiObjects[kind].exists

-----------------------------------------------------------------------------
(* C35 *)

\* C35: every Deployment, Service and Route the core creates carries a
\* non-empty value under exactly the label key that the watch predicate of
\* SetupWithManager tests, so that an event of a child the core created is
\* never filtered out before mapResourceToMCPServer.
C35_ChildrenCarryWatchedLabel ==
    \A kind \in Kinds :
        apiObjects[kind].exists =>
            /\ apiObjects[kind].labelKey = labelPredicateKey
            /\ \E l \in Labels(apiMCPServer) :
                  l.key = labelPredicateKey /\ l.value # ""
            /\ PassesPredicate(apiObjects[kind])

-----------------------------------------------------------------------------
(* C36 *)

\* the pass has read the child and holds the NotFound reason for its kind
RecordedNotFound(kind) ==
    /\ WasRead(kind)
    /\ FindStatusCondition(mcpServer.conditions, ConditionType(kind)).reason =
          Sprintf(kind, ReasonNotFoundSuffix)

-----------------------------------------------------------------------------
(* C37 *)

\* the child of the kind is in the cluster as the core builds it from the
\* record, ownership link included
ExistsAsBuilt(kind) ==
    /\ apiObjects[kind].exists
    /\ LinkedToRecord(apiObjects[kind])
    /\ AsBuilt(apiObjects[kind]) = DesiredObject(kind, apiMCPServer)

\* C37: when a child is deleted by another actor while the record exists,
\* a pass that runs afterwards creates it again with the spec and the
\* ownership link derived from the record: under fair re-delivery a child
\* that is missing eventually exists again.
C37_ChildRecreated ==
    /\ [](ThreeCreatesAnswered => \A kind \in Kinds : ExistsAsBuilt(kind))
    /\ \A kind \in Kinds : (~apiObjects[kind].exists) ~> ExistsAsBuilt(kind)

\* a pass has found the Deployment in place and has created the Service,
\* deleted earlier, again
C37_Witness ==
    /\ pc = "route"
    /\ issued = <<Req("Get", "MCPServer", Nil),
                  Req("Create", "Deployment", AlreadyExists),
                  Req("Create", "Service", Nil)>>
    /\ apiMCPServer.conditions # << >>
    /\ ExistsAsBuilt("Service")

-----------------------------------------------------------------------------
(* C38 *)

\* the condition types a pass sets
ConditionTypes ==
    {DeploymentAvailable, ServiceAvailable, RouteAvailable, OverallAvailable}

\* the entry of the type has the same status in both lists and another
\* reason or message
ReasonOnlyChange(before, after, type) ==
    /\ HasCondition(before, type) /\ HasCondition(after, type)
    /\ FindStatusCondition(after, type).status = FindStatusCondition(before, type).status
    /\ \/ FindStatusCondition(after, type).reason # FindStatusCondition(before, type).reason
       \/ FindStatusCondition(after, type).message # FindStatusCondition(before, type).message

\* C38: a merge of a pass sets the last-transition timestamp of a condition
\* to the time of the merge if and only if the type is new on the record or
\* its status value changes, and keeps the timestamp otherwise; a pass in
\* which only the reason or message of a condition changes still issues a
\* status write, which carries the new reason and message with the
\* timestamp the condition had.
C38_TimestampFollowsStatus ==
    [][/\ (pc \in MidPass) =>
            \A j \in 1..Len(mcpServer'.conditions) :
                \E c \in {mcpServer'.conditions[j]} :
                    IF HasCondition(mcpServer.conditions, c.type)
                       /\ FindStatusCondition(mcpServer.conditions, c.type).status = c.status
                    THEN c.lastTransitionTime
                         = FindStatusCondition(mcpServer.conditions, c.type).lastTransitionTime
                    ELSE c.lastTransitionTime = now
       /\ (pc' = "done" /\ Merged'
           /\ \E type \in ConditionTypes :
                  ReasonOnlyChange(originalStatus', mcpServer'.conditions, type)) =>
            /\ Cardinality(StatusWrites(issued')) = 1
            /\ Last(issued').err = Nil =>
                 \A type \in ConditionTypes :
                    ReasonOnlyChange(originalStatus', mcpServer'.conditions, type) =>
                      /\ FindStatusCondition(apiMCPServer'.conditions, type)
                         = FindStatusCondition(mcpServer'.conditions, type)
                      /\ FindStatusCondition(apiMCPServer'.conditions, type).lastTransitionTime
                         = FindStatusCondition(originalStatus', type).lastTransitionTime
      ]_vars

\* a pass has found the Deployment deleted and a later pass, at a later
\* time, has found it created again and not yet available: the persisted
\* condition says DeploymentNotReady with the timestamp of DeploymentNotFound
C38_Witness ==
    /\ Returned /\ Merged
    /\ HasCondition(originalStatus, DeploymentAvailable)
    /\ FindStatusCondition(originalStatus, DeploymentAvailable).reason
       = Sprintf("Deployment", ReasonNotFoundSuffix)
    /\ FindStatusCondition(apiMCPServer.conditions, DeploymentAvailable).reason
       = Sprintf("Deployment", ReasonNotReadySuffix)
    /\ FindStatusCondition(apiMCPServer.conditions, DeploymentAvailable).lastTransitionTime
       = FindStatusCondition(originalStatus, DeploymentAvailable).lastTransitionTime
    /\ FindStatusCondition(apiMCPServer.conditions, DeploymentAvailable).lastTransitionTime < now
    /\ Last(issued) = Req("Update", "MCPServer", Nil)

-----------------------------------------------------------------------------
(* C39 *)

\* the resource of the kind exists and carries no ownership link to the
\* record
Unowned(kind) ==
    /\ apiObjects[kind].exists
    /\ ~LinkedToRecord(apiObjects[kind])

\* the condition the evaluator of the kind derives from a resource read
\* without error
ConditionFrom(kind, obj, cr) ==
    CASE kind = "Deployment" -> getDeploymentCondition(Nil, obj, cr)
      [] kind = "Service" -> getServiceCondition(Nil, obj, cr)
      [] kind = "Route" -> getRouteCondition(Nil, obj, cr)

\* C39: when a resource with the record's name and namespace exists without
\* an ownership link to the record, the create of a pass for that kind is
\* answered AlreadyExists and the pass goes on as after a successful
\* create, no step of a pass changes the resource (it stays without the
\* link), and the condition of that kind is the one the evaluator derives
\* from that resource.
C39_UnownedChildCounts ==
    [][\A kind \in Kinds :
          Unowned(kind) =>
            /\ Pass => /\ apiObjects'[kind] = apiObjects[kind]
                       /\ ~Issued("Create", kind, Nil)'
            /\ (Pass /\ issued' # << >> /\ Last(issued') = Req("Create", kind, AlreadyExists)) =>
                    /\ pc' \notin {"done", "idle"}
                    /\ result' = NoResult
            /\ (Pass /\ issued' # << >> /\ Last(issued') = Req("Get", kind, Nil)) =>
                    SameButTime(FindStatusCondition(mcpServer'.conditions, ConditionType(kind)),
                                ConditionFrom(kind, apiObjects[kind], mcpServer))
      ]_vars

\* a pass over three resources it does not own has persisted Available=True
C39_Witness ==
    /\ Returned
    /\ \A kind \in Kinds : Unowned(kind) /\ Issued("Create", kind, AlreadyExists)
    /\ Issued("Update", "MCPServer", Nil)
    /\ HasCondition(apiMCPServer.conditions, OverallAvailable)
    /\ FindStatusCondition(apiMCPServer.conditions, OverallAvailable).status = "True"

-----------------------------------------------------------------------------
(* C40 *)

\* return ctrl.Result{}, err
ErrorOutcome == result.err # Nil /\ result.RequeueAfter = 0

\* return ctrl.Result{RequeueAfter: 15 * time.Second}, nil
RequeueOutcome == result.err = Nil /\ result.RequeueAfter = RequeueDelay

\* return ctrl.Result{}, nil
EmptyOutcome == result.err = Nil /\ result.RequeueAfter = 0

\* C40: every return of Reconcile is exactly one of three outcomes: an error
\* with an empty result, no error with a requeue after 15 seconds, or no
\* error with an empty result; an error is never returned together with a
\* requeue delay.
C40_ThreeOutcomes ==
    Returned =>
        /\ ErrorOutcome \/ RequeueOutcome \/ EmptyOutcome
        /\ ~(result.err # Nil /\ result.RequeueAfter > 0)

\* a pass whose overall condition is not True has failed to persist it: it
\* returns the error and no requeue delay
C40_Witness ==
    /\ Returned
    /\ ErrorOutcome
    /\ Merged
    /\ overallReady.status = "False"
    /\ Last(issued).verb = "Update"
    /\ Last(issued).err \in ErrTexts

====
